---- MODULE Spec2Model ----
(***************************************************************************)
(* Vault Commander: the vault file operations (lib/vault, lib/daily),      *)
(* the meeting-note import pipeline (lib/meeting), the search engine       *)
(* (lib/search) and the shared index cache hook (hooks/useSearchIndex).    *)
(*                                                                         *)
(* Strings are TLA+ strings; JavaScript's 0-based indexOf / slice are kept *)
(* 0-based.  Timestamps are milliseconds since local midnight of           *)
(* 2026-01-15.  The filesystem is a function from the paths of the         *)
(* existing files to [content, mtime], plus the set of existing            *)
(* directories.                                                            *)
(***************************************************************************)
EXTENDS Integers, Sequences, FiniteSets, TLC

VARIABLES
    fs,          \* path -> [content, mtime], for every existing file
    dirs,        \* the existing directories
    now,         \* the clock: Date.now() / dayjs()
    appends,     \* number of appendToSection calls made (bounds the run)
    drops,       \* number of files the meeting app has put in its folder
    last,        \* the last call: operation, arguments, outcome
    indexCache,  \* the module-level cache slot of hooks/useSearchIndex
    hooks,       \* hook instance -> the state of that useSearchIndex
    requests     \* the last two buildIndex calls, and how many were made

vaultVars == <<fs, dirs, now, appends, drops, last>>

cacheVars == <<indexCache, hooks, requests>>

vars == <<vaultVars, cacheVars>>

----------------------------------------------------------------------------
(* Bounds of the model *)

\* appendToSection calls per run
MaxAppends == 2
\* meeting notes imported (appended to the daily note) per run
MaxImports == 3
\* files the meeting app adds to its folder per run
MaxDrops == 1
\* buildIndex calls per run
MaxRequests == 2
\* clock ticks per run
MaxTicks == 3
\* commands that change the vault while the index cache is in use
MaxCommands == 1
MaxCaptures == 3
MaxDays == 1
MaxTries == 2

----------------------------------------------------------------------------
(* JavaScript string primitives *)

\* String.prototype.indexOf(sub, from): 0-based index of the first occurrence
\* of sub at or after from, -1 when there is none
IndexOfFrom(s, sub, from) ==
    LET found == { i \in from .. Len(s) - Len(sub) :
                     SubSeq(s, i + 1, i + Len(sub)) = sub }
    IN  IF found = {} THEN -1
        ELSE CHOOSE i \in found : \A j \in found : i <= j

indexOf(s, sub) == IndexOfFrom(s, sub, 0)

\* String.prototype.slice(a, b) and slice(a), for 0 <= a <= b <= length
slice(s, a, b) == SubSeq(s, a + 1, b)

sliceFrom(s, a) == SubSeq(s, a + 1, Len(s))

startsWith(s, prefix) ==
    Len(s) >= Len(prefix) /\ SubSeq(s, 1, Len(prefix)) = prefix

endsWith(s, suffix) ==
    Len(s) >= Len(suffix) /\ SubSeq(s, Len(s) - Len(suffix) + 1, Len(s)) = suffix

\* index of the last occurrence of the one-character string c at or before
\* from, -1 when there is none
LastIndexOfFrom(s, c, from) ==
    LET found == { i \in 0 .. from : SubSeq(s, i + 1, i + 1) = c }
    IN  IF found = {} THEN -1
        ELSE CHOOSE i \in found : \A j \in found : i >= j

lastIndexOf(s, c) == LastIndexOfFrom(s, c, Len(s) - 1)

----------------------------------------------------------------------------
(* node:path *)

join2(a, b) == a \o "/" \o b

join3(a, b, c) == a \o "/" \o b \o "/" \o c

dirname(path) ==
    LET i == lastIndexOf(path, "/")
    IN  IF i = -1 THEN "." ELSE IF i = 0 THEN "/" ELSE slice(path, 0, i)

basename(path) == sliceFrom(path, lastIndexOf(path, "/") + 1)

RECURSIVE Ancestors(_)
\* the directories mkdirSync(dir, {recursive: true}) makes sure exist
Ancestors(dir) ==
    IF dir = "/" \/ dir = "." THEN {} ELSE {dir} \cup Ancestors(dirname(dir))

----------------------------------------------------------------------------
(* lib/config *)

DEFAULT_SECTIONS ==
    [ schedule      |-> "## Schedule",
      tasks         |-> "## Tasks",
      running       |-> "## Running",
      meetingNotes  |-> "## Meeting Notes",
      voiceNotes    |-> "## Voice Notes",
      notes         |-> "## Notes",
      eveningReview |-> "## Evening Review" ]

\* getConfig() for the vault path preference "/vault"
config ==
    [ vaultPath       |-> "/vault",
      dailyNotePath   |-> "Journal/Daily",
      dailyNoteFormat |-> "YYYY-MM-DD-ddd",
      inboxPath       |-> "Inbox",
      sections        |-> DEFAULT_SECTIONS ]

\* the err of a call that did not throw
NoError == "none"

\* os.homedir() and process.cwd() of the extension's process
homedir == "/Users/me"
cwd == "/Applications/Raycast"

\* path.resolve(path) of a path without '.' or '..' segments: '' resolves to
\* the working directory, a relative path is put below it, a trailing slash
\* is dropped
resolve(path) ==
    LET abs == IF path = "" THEN cwd
               ELSE IF startsWith(path, "/") THEN path
               ELSE join2(cwd, path)
    IN  IF Len(abs) > 1 /\ endsWith(abs, "/") THEN slice(abs, 0, Len(abs) - 1) ELSE abs

\* a preference value: a string, or undefined when the preference is unset
Pref(value) == [ isUndefined |-> FALSE, value |-> value ]
UndefinedPref == [ isUndefined |-> TRUE, value |-> "" ]

\* expandPath(path): [err, path]; calling startsWith on undefined throws
expandPath(path) ==
    IF path.isUndefined THEN [ err |-> "TypeError", path |-> "" ]
    ELSE IF startsWith(path.value, "~")
    THEN [ err |-> NoError, path |-> homedir \o sliceFrom(path.value, 1) ]
    ELSE [ err |-> NoError, path |-> resolve(path.value) ]

\* getConfig() when getPreferenceValues() returns prefs: [err, config]
getConfig(prefs) ==
    LET expanded == expandPath(prefs.vaultPath)
    IN  [ err    |-> expanded.err,
          config |-> [ config EXCEPT !.vaultPath = expanded.path ] ]

----------------------------------------------------------------------------
(* lib/daily *)

MsPerDay == 24 * 60 * 60 * 1000

Digits == <<"0", "1", "2", "3", "4", "5", "6", "7", "8", "9">>

\* two-digit, zero-padded decimal (dayjs tokens DD, HH, mm, ss)
Pad2(n) == Digits[(n \div 10) + 1] \o Digits[(n % 10) + 1]

\* dayjs token ddd; day 0 (2026-01-15) is a Thursday
Weekdays == <<"Thu", "Fri", "Sat", "Sun", "Mon", "Tue", "Wed">>

\* dayjs(date).format('YYYY-MM-DD-ddd'), for dates from 2026-01-15 to 2026-01-31
formatDailyNoteDate(date) ==
    LET day == date \div MsPerDay
    IN  "2026-01-" \o Pad2(15 + day) \o "-" \o Weekdays[(day % 7) + 1]

getDailyNoteLink(date) == "[[" \o formatDailyNoteDate(date) \o "]]"

getDailyNotePath(cfg, date) ==
    join3(cfg.vaultPath, cfg.dailyNotePath, formatDailyNoteDate(date) \o ".md")

\* a template without the Running section
getDailyNoteTemplateWithoutRunning ==
    "## Schedule\n\n## Tasks\n\n## Meeting Notes\n\n## Voice Notes\n\n## Notes\n\n## Evening Review\n"

getDailyNoteTemplate ==
    "## Schedule\n\n## Tasks\n\n## Running\n\n## Meeting Notes\n\n## Voice Notes\n\n## Notes\n\n## Evening Review\n"

----------------------------------------------------------------------------
(* lib/vault: primitive file operations on a filesystem value.              *)
(* A filesystem value is [files |-> path -> [content, mtime], dirs |-> set] *)

fileExists(files, path) == path \in DOMAIN files

\* fs.writeFileSync(path, content): full overwrite, mtime = time of the write
writeFileSync(files, path, content, t) ==
    [p \in DOMAIN files \cup {path} |->
        IF p = path THEN [content |-> content, mtime |-> t] ELSE files[p]]

\* ensureDirectory: mkdirSync(dirPath, {recursive: true}) when missing
ensureDirectory(ds, dirPath) ==
    IF dirPath \in ds THEN ds ELSE ds \cup Ancestors(dirPath)

\* writeFile: ensureDirectory(dirname(path)), then writeFileSync
writeFile(fsys, path, content, t) ==
    [ files |-> writeFileSync(fsys.files, path, content, t),
      dirs  |-> ensureDirectory(fsys.dirs, dirname(path)) ]

\* faulty variant: the template is written whether or not the note exists
ensureDailyNoteOverwrites(fsys, cfg, date, t) ==
    LET path == getDailyNotePath(cfg, date)
    IN  [ fsys |-> writeFile(fsys, path, getDailyNoteTemplate, t), ret |-> path ]

\* ensureDailyNote(config, date): [fsys, ret]
ensureDailyNote(fsys, cfg, date, t) ==
    LET path == getDailyNotePath(cfg, date)
    IN  IF ~fileExists(fsys.files, path)
        THEN [ fsys |-> writeFile(fsys, path, getDailyNoteTemplate, t), ret |-> path ]
        ELSE [ fsys |-> fsys, ret |-> path ]

SectionNotFound(sectionHeader) ==
    "Section \"" \o sectionHeader \o "\" not found in file"

\* faulty variant: the insertion point placed after the newline instead of on it
insertPointAfterNewline(fileContent, sectionHeader) ==
    LET headerIndex == indexOf(fileContent, sectionHeader)
        afterHeader == headerIndex + Len(sectionHeader)
        nextNewline == IndexOfFrom(fileContent, "\n", afterHeader)
    IN  IF nextNewline # -1 THEN nextNewline + 1 ELSE afterHeader

\* faulty variant: the anchor is the first line that is the header and nothing
\* else, when there is one
insertPointOfHeaderLine(fileContent, sectionHeader) ==
    LET n           == Len(sectionHeader)
        wholeLines  == { k \in 0 .. Len(fileContent) - n :
                           /\ SubSeq(fileContent, k + 1, k + n) = sectionHeader
                           /\ (k = 0 \/ SubSeq(fileContent, k, k) = "\n")
                           /\ (k + n = Len(fileContent)
                                 \/ SubSeq(fileContent, k + n + 1, k + n + 1) = "\n") }
        headerIndex == IF wholeLines = {} THEN indexOf(fileContent, sectionHeader)
                       ELSE CHOOSE k \in wholeLines : \A j \in wholeLines : k <= j
        afterHeader == headerIndex + n
        nextNewline == IndexOfFrom(fileContent, "\n", afterHeader)
    IN  IF nextNewline # -1 THEN nextNewline ELSE afterHeader

\* faulty variant: the insertion point is the end of the section, in front of
\* the blank line before the next H2 header
insertPointBeforeNextHeader(fileContent, sectionHeader) ==
    LET headerIndex == indexOf(fileContent, sectionHeader)
        afterHeader == headerIndex + Len(sectionHeader)
        nextHeader  == IndexOfFrom(fileContent, "\n## ", afterHeader)
    IN  IF nextHeader # -1 THEN nextHeader ELSE Len(fileContent)

\* the insertion point appendToSection computes in fileContent (header present)
insertPointOf(fileContent, sectionHeader) ==
    LET headerIndex == indexOf(fileContent, sectionHeader)
        afterHeader == headerIndex + Len(sectionHeader)
        nextNewline == IndexOfFrom(fileContent, "\n", afterHeader)
    IN  IF nextNewline # -1 THEN nextNewline ELSE afterHeader

\* faulty variant: a missing header falls back to appending at the end of the file
\* before the error is raised
appendToSectionWritesFirst(fsys, filePath, sectionHeader, content, t) ==
    IF ~fileExists(fsys.files, filePath)
    THEN [ fsys |-> fsys, err |-> "ENOENT" ]
    ELSE
      LET fileContent == fsys.files[filePath].content
          found       == indexOf(fileContent, sectionHeader) # -1
          insertPoint == IF found THEN insertPointOf(fileContent, sectionHeader)
                         ELSE Len(fileContent)
          newContent  == slice(fileContent, 0, insertPoint) \o "\n" \o content
                            \o sliceFrom(fileContent, insertPoint)
      IN  [ fsys |-> [ files |-> writeFileSync(fsys.files, filePath, newContent, t),
                       dirs  |-> fsys.dirs ],
            err  |-> IF found THEN NoError ELSE SectionNotFound(sectionHeader) ]

\* faulty variant: content that the file already holds is not written again
appendToSectionSkipsDuplicate(fsys, filePath, sectionHeader, content, t) ==
    IF ~fileExists(fsys.files, filePath)
    THEN [ fsys |-> fsys, err |-> "ENOENT" ]
    ELSE
      LET fileContent == fsys.files[filePath].content
          insertPoint == insertPointOf(fileContent, sectionHeader)
          newContent  == slice(fileContent, 0, insertPoint) \o "\n" \o content
                            \o sliceFrom(fileContent, insertPoint)
      IN  IF indexOf(fileContent, sectionHeader) = -1
          THEN [ fsys |-> fsys, err |-> SectionNotFound(sectionHeader) ]
          ELSE IF indexOf(fileContent, content) # -1
          THEN [ fsys |-> fsys, err |-> NoError ]
          ELSE [ fsys |-> [ files |-> writeFileSync(fsys.files, filePath, newContent, t),
                            dirs  |-> fsys.dirs ],
                 err  |-> NoError ]

\* appendToSection(filePath, sectionHeader, content): [fsys, err]
appendToSection(fsys, filePath, sectionHeader, content, t) ==
    IF ~fileExists(fsys.files, filePath)
    THEN [ fsys |-> fsys, err |-> "ENOENT" ]          \* readFile throws
    ELSE
      LET fileContent == fsys.files[filePath].content
          headerIndex == indexOf(fileContent, sectionHeader)
          insertPoint == insertPointOf(fileContent, sectionHeader)
          newContent  == slice(fileContent, 0, insertPoint) \o "\n" \o content
                            \o sliceFrom(fileContent, insertPoint)
      IN  IF headerIndex = -1
          THEN [ fsys |-> fsys, err |-> SectionNotFound(sectionHeader) ]
          ELSE [ fsys |-> [ files |-> writeFileSync(fsys.files, filePath, newContent, t),
                            dirs  |-> fsys.dirs ],
                 err  |-> NoError ]

----------------------------------------------------------------------------
(* More JavaScript string primitives, used by lib/meeting *)

Whitespace == { " ", "\n", "\t", "\r" }

RECURSIVE trimStart(_)
trimStart(s) ==
    IF Len(s) > 0 /\ SubSeq(s, 1, 1) \in Whitespace
    THEN trimStart(SubSeq(s, 2, Len(s))) ELSE s

RECURSIVE trimEnd(_)
trimEnd(s) ==
    IF Len(s) > 0 /\ SubSeq(s, Len(s), Len(s)) \in Whitespace
    THEN trimEnd(SubSeq(s, 1, Len(s) - 1)) ELSE s

\* String.prototype.trim
trim(s) == trimEnd(trimStart(s))

UpperCase == "ABCDEFGHIJKLMNOPQRSTUVWXYZ"

LowerCase == "abcdefghijklmnopqrstuvwxyz"

UpperCaseLetters == { SubSeq(UpperCase, i, i) : i \in 1 .. Len(UpperCase) }

RECURSIVE toLowerCase(_)
\* String.prototype.toLowerCase, on ASCII
toLowerCase(s) ==
    IF s = "" THEN ""
    ELSE LET c == SubSeq(s, 1, 1)
         IN  (IF c \in UpperCaseLetters
              THEN SubSeq(LowerCase, indexOf(UpperCase, c) + 1, indexOf(UpperCase, c) + 1)
              ELSE c)
                \o toLowerCase(SubSeq(s, 2, Len(s)))

\* path.extname: from the last "." of the name to its end; "" when there is
\* none or the name only starts with it
extname(filename) ==
    LET i == lastIndexOf(filename, ".")
    IN  IF i <= 0 THEN "" ELSE sliceFrom(filename, i)

RECURSIVE split(_, _, _)
\* String.prototype.split(sep): the pieces of s from offset start on
split(s, sep, start) ==
    LET i == IndexOfFrom(s, sep, start)
    IN  IF i = -1 THEN << sliceFrom(s, start) >>
        ELSE << slice(s, start, i) >> \o split(s, sep, i + Len(sep))

\* s.split('\n')
splitLines(s) == split(s, "\n", 0)

RECURSIVE CountLeading(_, _)
\* number of leading characters of s that belong to chars
CountLeading(s, chars) ==
    IF Len(s) > 0 /\ SubSeq(s, 1, 1) \in chars
    THEN 1 + CountLeading(SubSeq(s, 2, Len(s)), chars) ELSE 0

\* dayjs(date).format('h:mma'), e.g. "2:35pm"
getTimestamp(date) ==
    LET ms     == date % MsPerDay
        hour   == ms \div (60 * 60 * 1000)
        minute == (ms \div (60 * 1000)) % 60
        h      == IF hour % 12 = 0 THEN 12 ELSE hour % 12
    IN  (IF h < 10 THEN Digits[h + 1] ELSE Pad2(h)) \o ":" \o Pad2(minute)
            \o (IF hour < 12 THEN "am" ELSE "pm")

----------------------------------------------------------------------------
(* lib/meeting *)

MEETING_EXTENSIONS == { ".md", ".txt" }

IMPORTED_PREFIX == ".imported-"

\* firstLine.match(/^#+\s*(.+)/): [matched, group]; the quantifiers are greedy
\* and give characters back so that (.+) gets at least one
headerMatch(firstLine) ==
    LET hashes == CountLeading(firstLine, {"#"})
        rest   == sliceFrom(firstLine, hashes)
        spaces == CountLeading(rest, Whitespace)
    IN  IF hashes = 0 THEN [matched |-> FALSE, group |-> ""]
        ELSE IF Len(rest) > spaces
             THEN [matched |-> TRUE, group |-> sliceFrom(rest, spaces)]
        ELSE IF spaces > 0
             THEN [matched |-> TRUE, group |-> sliceFrom(rest, spaces - 1)]
        ELSE IF hashes > 1
             THEN [matched |-> TRUE, group |-> "#"]
        ELSE [matched |-> FALSE, group |-> ""]

\* filename.replace(/\.(md|txt)$/i, '')
stripExtension(filename) ==
    LET lower == toLowerCase(filename)
    IN  IF endsWith(lower, ".md") THEN slice(filename, 0, Len(filename) - 3)
        ELSE IF endsWith(lower, ".txt") THEN slice(filename, 0, Len(filename) - 4)
        ELSE filename

extractTitle(content, filename) ==
    LET lines     == SelectSeq(splitLines(content), LAMBDA line : trim(line) # "")
        firstLine == IF Len(lines) > 0 THEN lines[1] ELSE ""
        m         == headerMatch(firstLine)
    IN  IF m.matched THEN trim(m.group)
        ELSE IF Len(firstLine) > 0 /\ Len(firstLine) < 100 THEN trim(firstLine)
        ELSE stripExtension(filename)

RECURSIVE InsertByTimestamp(_, _)
\* sorted with x put after every element whose timestamp is not greater
InsertByTimestamp(sorted, x) ==
    IF sorted = << >> THEN << x >>
    ELSE IF Head(sorted).timestamp <= x.timestamp
         THEN << Head(sorted) >> \o InsertByTimestamp(Tail(sorted), x)
         ELSE << x >> \o sorted

\* faulty variant: the comparator's operands swapped, newest first
sortByTimestampDescending(notes) ==
    LET before(i, j) == \/ notes[i].timestamp > notes[j].timestamp
                        \/ notes[i].timestamp = notes[j].timestamp /\ i < j
        rank(i)      == 1 + Cardinality({ j \in 1 .. Len(notes) : before(j, i) })
    IN  [ k \in 1 .. Len(notes) |-> notes[CHOOSE i \in 1 .. Len(notes) : rank(i) = k] ]

RECURSIVE sortByTimestamp(_)
\* Array.prototype.sort((a, b) => a.timestamp - b.timestamp): ascending, stable
sortByTimestamp(notes) ==
    IF notes = << >> THEN << >>
    ELSE InsertByTimestamp(sortByTimestamp(SubSeq(notes, 1, Len(notes) - 1)),
                           notes[Len(notes)])

\* the names readdirSync(dir) can return, in no specified order
DirNames(files, dir) == { basename(p) : p \in { q \in DOMAIN files : dirname(q) = dir } }

\* faulty variant: the filter keeps dot-files
isMeetingFileKeepsHidden(filename) ==
    toLowerCase(extname(filename)) \in MEETING_EXTENSIONS

\* the filter of listMeetingNotes
isMeetingFile(filename) ==
    /\ ~startsWith(filename, ".")
    /\ toLowerCase(extname(filename)) \in MEETING_EXTENSIONS

RECURSIVE Orderings(_)
\* the sequences that list every element of S once
Orderings(S) ==
    IF S = {} THEN { << >> }
    ELSE UNION { { << x >> \o rest : rest \in Orderings(S \ {x}) } : x \in S }

\* the orders readdirSync can return the names of dir in.  The order is not
\* specified; where the names that listMeetingNotes filters out stand has no
\* effect on it, so they are put first, in one order.
ReaddirOrders(files, dir) ==
    LET names   == DirNames(files, dir)
        kept    == { n \in names : isMeetingFile(n) }
        skipped == CHOOSE o \in Orderings(names \ kept) : TRUE
    IN  { skipped \o o : o \in Orderings(kept) }

meetingNoteFile(files, sourcePath, filename) ==
    LET filePath == join2(sourcePath, filename)
    IN  [ filename  |-> filename,
          path      |-> filePath,
          content   |-> files[filePath].content,
          timestamp |-> files[filePath].mtime,
          title     |-> extractTitle(files[filePath].content, filename) ]

\* a listing that leaves out the names whose file is gone when it is read
listMeetingNotesSkipsMissing(fsys, sourcePath, order) ==
    IF sourcePath \notin fsys.dirs THEN << >>
    ELSE LET kept == SelectSeq(order, LAMBDA n : isMeetingFile(n)
                                  /\ join2(sourcePath, n) \in DOMAIN fsys.files)
         IN  sortByTimestamp([i \in 1 .. Len(kept) |->
                                meetingNoteFile(fsys.files, sourcePath, kept[i])])

\* listMeetingNotes(sourcePath), readdirSync returning the names as order;
\* a missing directory makes readdirSync throw, a name whose file is gone
\* when it is read makes statSync throw: either yields []
listMeetingNotes(fsys, sourcePath, order) ==
    IF sourcePath \notin fsys.dirs THEN << >>
    ELSE LET kept == SelectSeq(order, isMeetingFile)
         IN  IF \E i \in 1 .. Len(kept) : join2(sourcePath, kept[i]) \notin DOMAIN fsys.files
             THEN << >>                                  \* statSync throws: catch
             ELSE sortByTimestamp([i \in 1 .. Len(kept) |->
                                     meetingNoteFile(fsys.files, sourcePath, kept[i])])

\* one readdirSync order for each result listMeetingNotes can have
ListingOrders(fsys, sourcePath) ==
    LET listed == { [order |-> o, notes |-> listMeetingNotes(fsys, sourcePath, o)] :
                       o \in ReaddirOrders(fsys.files, sourcePath) }
    IN  { (CHOOSE x \in listed : x.notes = l).order : l \in { x.notes : x \in listed } }

formatMeetingContent(note) ==
    "### " \o note.title \o " (" \o getTimestamp(note.timestamp) \o ")\n\n"
        \o trim(note.content) \o "\n"

archivePathOf(note) == join2(dirname(note.path), IMPORTED_PREFIX \o note.filename)

AlreadyArchived(archivePath) == "Archive file already exists: " \o archivePath

\* fs.renameSync(from, to): the file keeps its content and mtime
renameSync(files, from, to) ==
    [p \in (DOMAIN files \ {from}) \cup {to} |-> IF p = to THEN files[from] ELSE files[p]]

\* faulty variant: the rename is done without looking for an earlier archive
archiveSourceClobbers(fsys, note) ==
    IF ~fileExists(fsys.files, note.path)
    THEN [ fsys |-> fsys, err |-> "ENOENT" ]
    ELSE [ fsys |-> [ files |-> renameSync(fsys.files, note.path, archivePathOf(note)),
                      dirs  |-> fsys.dirs ],
           err  |-> NoError ]

\* the archive step of importMeetingNote: [fsys, err]
archiveSource(fsys, note) ==
    LET archivePath == archivePathOf(note)
    IN  IF fileExists(fsys.files, archivePath)
        THEN [ fsys |-> fsys, err |-> AlreadyArchived(archivePath) ]
        ELSE IF ~fileExists(fsys.files, note.path)
        THEN [ fsys |-> fsys, err |-> "ENOENT" ]       \* renameSync throws
        ELSE [ fsys |-> [ files |-> renameSync(fsys.files, note.path, archivePath),
                          dirs  |-> fsys.dirs ],
               err  |-> NoError ]

\* an importMeetingNote that looks for the archive file before it appends
importMeetingNoteChecksFirst(fsys, cfg, note, archiveAfterImport, t) ==
    LET ensured  == ensureDailyNote(fsys, cfg, t, t)
        appended == appendToSection(ensured.fsys, ensured.ret, cfg.sections.meetingNotes,
                                    formatMeetingContent(note), t)
        archived == archiveSource(appended.fsys, note)
    IN  IF archiveAfterImport /\ fileExists(fsys.files, archivePathOf(note))
        THEN [ fsys |-> ensured.fsys, err |-> AlreadyArchived(archivePathOf(note)),
               dailyNotePath |-> ensured.ret ]
        ELSE IF appended.err # NoError
        THEN [ fsys |-> appended.fsys, err |-> appended.err, dailyNotePath |-> ensured.ret ]
        ELSE IF archiveAfterImport
        THEN [ fsys |-> archived.fsys, err |-> archived.err, dailyNotePath |-> ensured.ret ]
        ELSE [ fsys |-> appended.fsys, err |-> NoError, dailyNotePath |-> ensured.ret ]

\* importMeetingNote(config, note, archiveAfterImport): [fsys, err, dailyNotePath]
importMeetingNote(fsys, cfg, note, archiveAfterImport, t) ==
    LET ensured  == ensureDailyNote(fsys, cfg, t, t)
        appended == appendToSection(ensured.fsys, ensured.ret, cfg.sections.meetingNotes,
                                    formatMeetingContent(note), t)
        archived == archiveSource(appended.fsys, note)
    IN  IF appended.err # NoError
        THEN [ fsys |-> appended.fsys, err |-> appended.err, dailyNotePath |-> ensured.ret ]
        ELSE IF archiveAfterImport
        THEN [ fsys |-> archived.fsys, err |-> archived.err, dailyNotePath |-> ensured.ret ]
        ELSE [ fsys |-> appended.fsys, err |-> NoError, dailyNotePath |-> ensured.ret ]

RECURSIVE importEach(_, _, _, _, _, _)

\* faulty variant: the loop has no try/catch, the first failure ends it
importEachAborts(acc, cfg, notes, i, archiveAfterImport, t) ==
    IF i > Len(notes) THEN acc
    ELSE LET r == importMeetingNote(acc.fsys, cfg, notes[i], archiveAfterImport, t)
         IN  IF r.err # NoError
             THEN [ fsys |-> r.fsys, results |-> acc.results,
                    errors |-> Append(acc.errors, [note |-> notes[i], error |-> r.err]) ]
             ELSE importEach(
                     [ fsys    |-> r.fsys,
                       results |-> Append(acc.results,
                                     [source |-> notes[i], dailyNotePath |-> r.dailyNotePath]),
                       errors  |-> acc.errors ],
                     cfg, notes, i + 1, archiveAfterImport, t)

\* the loop of importAllMeetingNotes over notes[i ..], acc = [fsys, results, errors]
importEach(acc, cfg, notes, i, archiveAfterImport, t) ==
    IF i > Len(notes) THEN acc
    ELSE LET r == importMeetingNote(acc.fsys, cfg, notes[i], archiveAfterImport, t)
         IN  importEach(
                 [ fsys    |-> r.fsys,
                   results |-> IF r.err = NoError
                               THEN Append(acc.results,
                                      [source |-> notes[i], dailyNotePath |-> r.dailyNotePath])
                               ELSE acc.results,
                   errors  |-> IF r.err = NoError THEN acc.errors
                               ELSE Append(acc.errors, [note |-> notes[i], error |-> r.err]) ],
                 cfg, notes, i + 1, archiveAfterImport, t)

\* importAllMeetingNotes(config, sourcePath, archiveAfterImport):
\* [fsys, notes, results, errors]
importAllMeetingNotes(fsys, cfg, sourcePath, order, archiveAfterImport, t) ==
    LET notes == listMeetingNotes(fsys, sourcePath, order)
        done  == importEach([fsys |-> fsys, results |-> << >>, errors |-> << >>],
                            cfg, notes, 1, archiveAfterImport, t)
    IN  [ fsys |-> done.fsys, notes |-> notes,
          results |-> done.results, errors |-> done.errors ]

getPendingMeetingCount(fsys, sourcePath, order) ==
    Len(listMeetingNotes(fsys, sourcePath, order))

----------------------------------------------------------------------------
(* lib/vault: capture notes *)

\* a filename with the format 'YYYY-MM-DD-HHmm': minutes, no seconds
generateCaptureFilenameToMinute(date) ==
    LET day == date \div MsPerDay
        s   == (date % MsPerDay) \div 1000
    IN  "capture-2026-01-" \o Pad2(15 + day) \o "-"
          \o Pad2(s \div 3600) \o Pad2((s \div 60) % 60) \o ".md"

\* dayjs(date).format('YYYY-MM-DD-HHmmss') inside 'capture-....md'
generateCaptureFilename(date) ==
    LET day == date \div MsPerDay
        s   == (date % MsPerDay) \div 1000
    IN  "capture-2026-01-" \o Pad2(15 + day) \o "-"
          \o Pad2(s \div 3600) \o Pad2((s \div 60) % 60) \o Pad2(s % 60) \o ".md"

\* a createCaptureNote that makes sure of the daily note it links to
createCaptureNoteEnsuresDaily(fsys, cfg, content, date) ==
    LET filename      == generateCaptureFilename(date)
        path          == join3(cfg.vaultPath, cfg.inboxPath, filename)
        dailyNoteLink == getDailyNoteLink(date)
        timestamp     == getTimestamp(date)
        noteContent   == dailyNoteLink \o " - " \o timestamp \o "\n\n" \o content \o "\n"
    IN  [ fsys |-> writeFile(ensureDailyNote(fsys, cfg, date, date).fsys, path,
                             noteContent, date),
          note |-> [ filename |-> filename, path |-> path, content |-> noteContent,
                     dailyNoteLink |-> dailyNoteLink, timestamp |-> timestamp ] ]

\* createCaptureNote(config, content, date): [fsys, note]
createCaptureNote(fsys, cfg, content, date) ==
    LET filename      == generateCaptureFilename(date)
        path          == join3(cfg.vaultPath, cfg.inboxPath, filename)
        dailyNoteLink == getDailyNoteLink(date)
        timestamp     == getTimestamp(date)
        noteContent   == dailyNoteLink \o " - " \o timestamp \o "\n\n" \o content \o "\n"
    IN  [ fsys |-> writeFile(fsys, path, noteContent, date),
          note |-> [ filename |-> filename, path |-> path, content |-> noteContent,
                     dailyNoteLink |-> dailyNoteLink, timestamp |-> timestamp ] ]

----------------------------------------------------------------------------
(* lib/voice *)

\* Supported transcription file extensions
TRANSCRIPTION_EXTENSIONS == { ".txt", ".md" }

\* the filter of listTranscriptions
isTranscriptionFile(filename) ==
    /\ ~startsWith(filename, ".")
    /\ toLowerCase(extname(filename)) \in TRANSCRIPTION_EXTENSIONS

transcriptionFile(files, sourcePath, filename) ==
    LET filePath == join2(sourcePath, filename)
    IN  [ filename  |-> filename,
          path      |-> filePath,
          content   |-> files[filePath].content,
          timestamp |-> files[filePath].mtime ]

\* listTranscriptions(sourcePath), readdirSync returning the names as order;
\* a missing directory makes readdirSync throw, which yields []
listTranscriptions(fsys, sourcePath, order) ==
    IF sourcePath \notin fsys.dirs THEN << >>
    ELSE LET kept == SelectSeq(order, isTranscriptionFile)
         IN  IF \E i \in 1 .. Len(kept) : join2(sourcePath, kept[i]) \notin DOMAIN fsys.files
             THEN << >>                                  \* statSync throws: catch
             ELSE sortByTimestamp([i \in 1 .. Len(kept) |->
                                     transcriptionFile(fsys.files, sourcePath, kept[i])])

\* dayjs(date).format('YYYY-MM-DD-HHmmss') inside 'voice-....md'
generateVoiceNoteFilename(date) ==
    LET day == date \div MsPerDay
        s   == (date % MsPerDay) \div 1000
    IN  "voice-2026-01-" \o Pad2(15 + day) \o "-"
          \o Pad2(s \div 3600) \o Pad2((s \div 60) % 60) \o Pad2(s % 60) \o ".md"

\* fs.renameSync(from, to) of a file: throws when from is gone or to is a
\* directory, replaces to when it is a file
renameFile(fsys, from, to) ==
    IF from \notin DOMAIN fsys.files THEN [ fsys |-> fsys, err |-> "ENOENT" ]
    ELSE IF to \in fsys.dirs THEN [ fsys |-> fsys, err |-> "EISDIR" ]
    ELSE [ fsys |-> [ files |-> renameSync(fsys.files, from, to), dirs |-> fsys.dirs ],
           err  |-> NoError ]

\* importTranscription(config, transcription, archiveAfterImport), the note
\* written at time t: [fsys, err, result]
importTranscription(fsys, cfg, transcription, archiveAfterImport, t) ==
    LET timestamp     == transcription.timestamp
        filename      == generateVoiceNoteFilename(timestamp)
        notePath      == join3(cfg.vaultPath, cfg.inboxPath, filename)
        dailyNoteLink == getDailyNoteLink(timestamp)
        timeStr       == getTimestamp(timestamp)
        noteContent   == dailyNoteLink \o " - " \o timeStr \o " (voice)\n\n"
                            \o trim(transcription.content) \o "\n"
        written       == writeFile(fsys, notePath, noteContent, t)
        archivePath   == join2(dirname(transcription.path),
                               IMPORTED_PREFIX \o transcription.filename)
        renamed       == renameFile(written, transcription.path, archivePath)
        result        == [ source |-> transcription, notePath |-> notePath,
                           noteFilename |-> filename ]
    IN  IF archiveAfterImport
        THEN [ fsys |-> renamed.fsys, err |-> renamed.err, result |-> result ]
        ELSE [ fsys |-> written, err |-> NoError, result |-> result ]

RECURSIVE mapImport(_, _, _, _, _, _)
\* transcriptions.map((t) => importTranscription(config, t, archiveAfterImport))
\* from element i on: the first exception leaves the map and the function
mapImport(acc, cfg, transcriptions, i, archiveAfterImport, t) ==
    IF i > Len(transcriptions) THEN acc
    ELSE LET r == importTranscription(acc.fsys, cfg, transcriptions[i], archiveAfterImport, t)
         IN  IF r.err # NoError
             THEN [ fsys |-> r.fsys, err |-> r.err, items |-> acc.items ]
             ELSE mapImport([ fsys |-> r.fsys, err |-> NoError,
                              items |-> Append(acc.items, r.result) ],
                            cfg, transcriptions, i + 1, archiveAfterImport, t)

\* importAllTranscriptions(config, sourcePath, archiveAfterImport):
\* [fsys, transcriptions, err, items]; the value returned is the array items
importAllTranscriptions(fsys, cfg, sourcePath, order, archiveAfterImport, t) ==
    LET transcriptions == listTranscriptions(fsys, sourcePath, order)
        mapped == mapImport([ fsys |-> fsys, err |-> NoError, items |-> << >> ],
                            cfg, transcriptions, 1, archiveAfterImport, t)
    IN  [ fsys |-> mapped.fsys, transcriptions |-> transcriptions,
          err |-> mapped.err, items |-> mapped.items ]

----------------------------------------------------------------------------
(* lib/search: the index builder *)

\* Max chars to index from each file
CONTENT_PREVIEW_LENGTH == 500

RECURSIVE EnumerationOf(_)
\* the elements of S, each once, in one fixed order
EnumerationOf(S) ==
    IF S = {} THEN << >>
    ELSE LET x == CHOOSE y \in S : TRUE
         IN  << x >> \o EnumerationOf(S \ {x})

\* readdirSync(dir, {withFileTypes: true}): the names of the files and
\* directories directly in dir, in the order the directory gives them
readdirSync(fsys, dir) ==
    EnumerationOf({ basename(p) :
        p \in { q \in (DOMAIN fsys.files) \cup fsys.dirs : q # dir /\ dirname(q) = dir } })

\* String.prototype.slice(0, maxLength), the end clamped to the length
sliceTo(s, maxLength) ==
    IF Len(s) <= maxLength THEN s ELSE SubSeq(s, 1, maxLength)

\* path.basename(filePath, ext)
basenameExt(filePath, ext) ==
    LET b == basename(filePath)
    IN  IF endsWith(b, ext) /\ b # ext THEN slice(b, 0, Len(b) - Len(ext)) ELSE b

RECURSIVE findMarkdownFiles(_, _)
RECURSIVE findInEntries(_, _, _)
\* a loop that skips hidden files but descends into hidden directories
findInEntriesEntersHidden(fsys, dir, entries) ==
    IF entries = << >> THEN << >>
    ELSE LET name     == Head(entries)
             fullPath == join2(dir, name)
         IN  (IF fullPath \in fsys.dirs THEN findMarkdownFiles(fsys, fullPath)
              ELSE IF startsWith(name, ".") THEN << >>
              ELSE IF endsWith(name, ".md") THEN << fullPath >>
              ELSE << >>)
               \o findInEntries(fsys, dir, Tail(entries))

\* the loop of findMarkdownFiles over the entries of dir
findInEntries(fsys, dir, entries) ==
    IF entries = << >> THEN << >>
    ELSE LET name     == Head(entries)
             fullPath == join2(dir, name)
         IN  (IF startsWith(name, ".") THEN << >>
              ELSE IF fullPath \in fsys.dirs THEN findMarkdownFiles(fsys, fullPath)
              ELSE IF endsWith(name, ".md") THEN << fullPath >>
              ELSE << >>)
               \o findInEntries(fsys, dir, Tail(entries))

\* findMarkdownFiles(dir), for a directory that exists
findMarkdownFiles(fsys, dir) == findInEntries(fsys, dir, readdirSync(fsys, dir))

\* getFilePreview(filePath): '' when the file cannot be read
getFilePreview(files, filePath) ==
    IF filePath \in DOMAIN files
    THEN sliceTo(files[filePath].content, CONTENT_PREVIEW_LENGTH)
    ELSE ""

\* buildSearchIndex(vaultPath): [err, index]; readdirSync throws when the
\* vault directory is missing
buildSearchIndex(fsys, vaultPath) ==
    IF vaultPath \notin fsys.dirs
    THEN [ err |-> "ENOENT", index |-> << >> ]
    ELSE LET found == findMarkdownFiles(fsys, vaultPath)
         IN  [ err   |-> NoError,
               index |-> [ i \in 1 .. Len(found) |->
                             [ path     |-> found[i],
                               filename |-> basenameExt(found[i], ".md"),
                               content  |-> getFilePreview(fsys.files, found[i]) ] ] ]

----------------------------------------------------------------------------
(* hooks/useSearchIndex *)

\* Cache TTL - 5 minutes
CACHE_TTL_MS == 5 * 60 * 1000

\* indexCache = null
NoEntry == [ isNull |-> TRUE, index |-> << >>, vaultPath |-> "", timestamp |-> 0 ]

CacheEntry(index, vaultPath, timestamp) ==
    [ isNull |-> FALSE, index |-> index, vaultPath |-> vaultPath, timestamp |-> timestamp ]

isCacheValid(cache, vaultPath, t) ==
    IF cache.isNull THEN FALSE
    ELSE IF cache.vaultPath # vaultPath THEN FALSE
    ELSE IF t - cache.timestamp > CACHE_TTL_MS THEN FALSE
    ELSE TRUE

\* invalidateIndexCache(): the value it gives indexCache
invalidateIndexCache == NoEntry

\* the index state of a hook: null, or an index
NullIndex == [ isNull |-> TRUE, entries |-> << >> ]

IndexOf(entries) == [ isNull |-> FALSE, entries |-> entries ]

\* vaultPath undefined (or ''): !vaultPath holds
NoPath == ""

\* a hook instance that is not mounted
Unmounted ==
    [ mounted |-> FALSE, vaultPath |-> NoPath, index |-> NullIndex, isIndexing |-> FALSE,
      error |-> NoError, buildInProgress |-> FALSE, pc |-> "idle", buildPath |-> NoPath ]

\* the state of useSearchIndex(vaultPath) at its first render
FirstRender(vaultPath) ==
    [ mounted |-> TRUE, vaultPath |-> vaultPath, index |-> NullIndex, isIndexing |-> TRUE,
      error |-> NoError, buildInProgress |-> FALSE, pc |-> "idle", buildPath |-> NoPath ]

\* how buildIndex(forceFresh) leaves before its first await: "nopath",
\* "cache" (served from the cache), "guard" (a build of this hook is in
\* progress) or "build" (a build is started)
buildIndexOutcome(hook, cache, forceFresh, t) ==
    IF hook.vaultPath = NoPath THEN "nopath"
    ELSE IF ~forceFresh /\ isCacheValid(cache, hook.vaultPath, t) /\ ~cache.isNull THEN "cache"
    ELSE IF hook.buildInProgress THEN "guard"
    ELSE "build"

\* buildIndex(forceFresh) up to its first await (showToast): the hook after it
buildIndex(hook, cache, forceFresh, t) ==
    LET outcome == buildIndexOutcome(hook, cache, forceFresh, t)
    IN  CASE outcome = "nopath" -> [ hook EXCEPT !.isIndexing = FALSE ]
          [] outcome = "cache"  -> [ hook EXCEPT !.index = IndexOf(cache.index),
                                                 !.isIndexing = FALSE ]
          [] outcome = "guard"  -> hook
          [] outcome = "build"  -> [ hook EXCEPT !.buildInProgress = TRUE,
                                                 !.isIndexing = TRUE,
                                                 !.error = NoError,
                                                 !.pc = "showToast",
                                                 !.buildPath = hook.vaultPath ]

\* the record of one buildIndex call: for what path, and how it left
Request(path, forceFresh, outcome, t) ==
    [ path |-> path, force |-> forceFresh, outcome |-> outcome, at |-> t ]

NoRequest == Request(NoPath, FALSE, "none", 0)

\* the process before any useSearchIndex is mounted
NoHookMounted ==
    /\ indexCache = NoEntry
    /\ hooks = [ h \in {} |-> Unmounted ]
    /\ requests = [ count |-> 0, prev |-> NoRequest, cur |-> NoRequest ]

----------------------------------------------------------------------------
(* lib/search: searchVault without a query *)

\* .slice(0, 50): the most results a search returns
MAX_RESULTS == 50

\* .slice(0, 100): the most characters of a result's preview
PREVIEW_LENGTH == 100

\* statSync(entry.path).mtimeMs, 0 when stat throws
mtimeMs(files, path) == IF path \in DOMAIN files THEN files[path].mtime ELSE 0

\* Array.prototype.sort((a, b) => b.mtime - a.mtime): descending, stable.
\* An entry stands after the entries with a greater mtime and the earlier
\* entries with the same mtime.
sortByMtime(entries) ==
    LET n     == Len(entries)
        place == [ i \in 1 .. n |->
                     1 + Cardinality({ j \in 1 .. n :
                            \/ entries[j].mtime > entries[i].mtime
                            \/ entries[j].mtime = entries[i].mtime /\ j < i }) ]
    IN  [ k \in 1 .. n |-> entries[CHOOSE i \in 1 .. n : place[i] = k] ]

\* faulty variant: the sorted list is returned whole
searchVaultUncapped(files, index) ==
    LET sorted == sortByMtime([ i \in 1 .. Len(index) |->
                     [ path |-> index[i].path, filename |-> index[i].filename,
                       content |-> index[i].content,
                       mtime |-> mtimeMs(files, index[i].path) ] ])
    IN  [ i \in 1 .. Len(sorted) |->
            [ path |-> sorted[i].path, filename |-> sorted[i].filename,
              preview |-> sliceTo(sorted[i].content, PREVIEW_LENGTH), score |-> 0 ] ]

\* searchVault(index, query) for a query that trims to '': the recent files
searchVault(files, index) ==
    LET sorted == sortByMtime([ i \in 1 .. Len(index) |->
                     [ path |-> index[i].path, filename |-> index[i].filename,
                       content |-> index[i].content,
                       mtime |-> mtimeMs(files, index[i].path) ] ])
        top    == SubSeq(sorted, 1, IF Len(sorted) < MAX_RESULTS
                                    THEN Len(sorted) ELSE MAX_RESULTS)
    IN  [ i \in 1 .. Len(top) |->
            [ path |-> top[i].path, filename |-> top[i].filename,
              preview |-> sliceTo(top[i].content, PREVIEW_LENGTH), score |-> 0 ] ]

----------------------------------------------------------------------------
(* The record of the last library call *)

NoContent == [exists |-> FALSE, content |-> "", mtime |-> 0]

\* what is on disk at path
ContentOf(files, path) ==
    IF path \in DOMAIN files
    THEN [exists |-> TRUE, content |-> files[path].content, mtime |-> files[path].mtime]
    ELSE NoContent

Call(op, path, header, content, ret, err, old) ==
    [ op |-> op, path |-> path, header |-> header, content |-> content,
      ret |-> ret, err |-> err, old |-> old ]

NoCall == Call("none", "", "", "", "", NoError, NoContent)

FS == [files |-> fs, dirs |-> dirs]

----------------------------------------------------------------------------
(* Inputs of the vault operations *)

\* the date of the unit tests, 2026-01-15 2:35pm, and the same time a day later
TestDate == (14 * 60 + 35) * 60 * 1000

Dates == { TestDate, TestDate + MsPerDay }

DailyPaths == { getDailyNotePath(config, d) : d \in Dates }

\* what a daily note holds when the run starts: written by the user, a note
\* whose last header line has no trailing newline, or a note where a header's
\* text also stands in a line of body text and at the start of a longer header
InitialDailyContents ==
    { "Existing content", "## Schedule\n\n## Tasks",
      "see ## Tasks below\n## Notes archive\n\n## Tasks\n\n## Notes\n" }

\* the keys of config.sections in declaration order
SectionKeys ==
    << "schedule", "tasks", "running", "meetingNotes", "voiceNotes", "notes",
       "eveningReview" >>

AppendHeaders ==
    { config.sections[SectionKeys[k]] : k \in 1 .. Len(SectionKeys) } \cup { "## NonExistent" }

AppendContents == { "- [ ] New task", "## Notes" }

VaultDirs == Ancestors(join2(config.vaultPath, config.dailyNotePath))

----------------------------------------------------------------------------
(* The vault operations as actions *)

EnsureDailyNote(date) ==
    LET r == ensureDailyNote(FS, config, date, now)
    IN  /\ fs' = r.fsys.files
        /\ dirs' = r.fsys.dirs
        /\ last' = Call("ensureDailyNote", getDailyNotePath(config, date), "", "",
                        r.ret, NoError, ContentOf(fs, getDailyNotePath(config, date)))
        /\ UNCHANGED <<now, appends, drops, indexCache, hooks, requests>>

AppendToSection(filePath, sectionHeader, content) ==
    LET r == appendToSection(FS, filePath, sectionHeader, content, now)
    IN  /\ appends < MaxAppends
        /\ appends' = appends + 1
        /\ fs' = r.fsys.files
        /\ dirs' = r.fsys.dirs
        /\ last' = Call("appendToSection", filePath, sectionHeader, content,
                        "", r.err, ContentOf(fs, filePath))
        /\ UNCHANGED <<now, drops, indexCache, hooks, requests>>

InitVault ==
    /\ \E present \in SUBSET DailyPaths :
         \E c \in [present -> InitialDailyContents] :
            fs = [p \in present |-> [content |-> c[p], mtime |-> 0]]
    /\ dirs = IF fs = << >> THEN {} ELSE VaultDirs
    /\ now = TestDate
    /\ appends = 0
    /\ drops = 0
    /\ last = NoCall
    /\ NoHookMounted

NextVault ==
    \/ \E d \in Dates : EnsureDailyNote(d)
    \/ \E p \in DailyPaths, h \in AppendHeaders, c \in AppendContents :
          AppendToSection(p, h, c)

SpecVault == InitVault /\ [][NextVault]_vars

----------------------------------------------------------------------------
(* Inputs of the meeting import *)

\* config.meetingPath
MeetingPath == "/meetings"

MeetingNames == { "a.md", "B.TXT", "c.md" }

\* files of the folder that listMeetingNotes has to leave out
OtherNames == { ".hidden.md", "notes.pdf" }

MeetingContentOf(filename) ==
    IF filename = "a.md" THEN "# Standup\n\nAlice: done\n"
    ELSE IF filename = "B.TXT" THEN "Sync with Bob"
    ELSE "\n## Retro \nwent well\n"

\* modification times of the files present when the run starts: c.md is the
\* oldest (1:35pm), a.md and B.TXT were both written at 1:36pm
MeetingTimeOf(filename) ==
    IF filename = "c.md" THEN TestDate - 60 * 60 * 1000 ELSE TestDate - 59 * 60 * 1000

\* what the meeting app writes later on: a note named like an earlier one
DropNames == { "a.md" }

DropContents == { "# Standup\n\nAlice: again\n" }

----------------------------------------------------------------------------
(* The meeting import as actions *)

ListMeetingNotes(order) ==
    /\ last' = [ op |-> "listMeetingNotes", ret |-> listMeetingNotes(FS, MeetingPath, order) ]
    /\ UNCHANGED <<fs, dirs, now, appends, drops, indexCache, hooks, requests>>

ImportMeetingNote(note, archiveAfterImport) ==
    \E r \in { importMeetingNote(FS, config, note, archiveAfterImport, now) } :
        /\ appends < MaxImports
        /\ appends' = appends + 1
        /\ fs' = r.fsys.files
        /\ dirs' = r.fsys.dirs
        /\ last' = [ op |-> "importMeetingNote", note |-> note,
                     archive |-> archiveAfterImport, err |-> r.err,
                     ret |-> r.dailyNotePath, pre |-> fs ]
        /\ UNCHANGED <<now, drops, indexCache, hooks, requests>>

ImportAllMeetingNotes(order, archiveAfterImport) ==
    \E r \in { importAllMeetingNotes(FS, config, MeetingPath, order,
                                      archiveAfterImport, now) } :
        /\ appends + Len(r.notes) <= MaxImports
        /\ appends' = appends + Len(r.notes)
        /\ fs' = r.fsys.files
        /\ dirs' = r.fsys.dirs
        /\ last' = [ op |-> "importAllMeetingNotes", archive |-> archiveAfterImport,
                     notes |-> r.notes, results |-> r.results, errors |-> r.errors,
                     pre |-> fs ]
        /\ UNCHANGED <<now, drops, indexCache, hooks, requests>>

\* the meeting app writes a new note into its folder
DropMeetingNote(filename, content) ==
    /\ drops < MaxDrops
    /\ MeetingPath \in dirs
    /\ join2(MeetingPath, filename) \notin DOMAIN fs
    /\ drops' = drops + 1
    /\ fs' = writeFileSync(fs, join2(MeetingPath, filename), content, now)
    /\ last' = [ op |-> "drop", path |-> join2(MeetingPath, filename) ]
    /\ UNCHANGED <<dirs, now, appends, indexCache, hooks, requests>>

InitImport ==
    /\ now = TestDate
    /\ appends = 0
    /\ drops = 0
    /\ last = NoCall
    /\ NoHookMounted
    /\ \/ /\ fs = << >>                                 \* no meeting folder at all
          /\ dirs = {}
       \/ \E present \in { {"a.md"}, MeetingNames }, seeded \in SUBSET { "a.md" },
             daily \in SUBSET { "Existing content", getDailyNoteTemplate } :
               /\ Cardinality(daily) <= 1
               /\ fs = [ p \in { join2(MeetingPath, n) : n \in present \cup OtherNames }
                                \cup { join2(MeetingPath, IMPORTED_PREFIX \o n) : n \in seeded }
                                \cup { getDailyNotePath(config, now) : c \in daily } |->
                           IF p = getDailyNotePath(config, now)
                           THEN [ content |-> CHOOSE c \in daily : TRUE, mtime |-> 0 ]
                           ELSE IF basename(p) \in present
                           THEN [ content |-> MeetingContentOf(basename(p)),
                                  mtime   |-> MeetingTimeOf(basename(p)) ]
                           ELSE [ content |-> "old", mtime |-> 0 ] ]
               /\ dirs = { MeetingPath } \cup (IF daily = {} THEN {} ELSE VaultDirs)

NextImport ==
    \/ \E order \in ListingOrders(FS, MeetingPath) :
          \/ ListMeetingNotes(order)
          \/ \E notes \in { listMeetingNotes(FS, MeetingPath, order) } :
                \E i \in 1 .. Len(notes), archive \in BOOLEAN :
                   ImportMeetingNote(notes[i], archive)
          \/ \E archive \in BOOLEAN : ImportAllMeetingNotes(order, archive)
    \/ \E n \in DropNames, c \in DropContents : DropMeetingNote(n, c)

SpecImport == InitImport /\ [][NextImport]_vars

----------------------------------------------------------------------------
(* Inputs of the index cache *)

\* the hook instances that can be mounted in the process
Hooks == { 1, 2 }

\* a second vault, for a request with another vault path
OtherVault == "/other"

VaultPaths == { config.vaultPath, OtherVault }

\* the clock advances by half the TTL
TickMs == CACHE_TTL_MS \div 2

\* what the capture form, the add form and the meeting folder hold
CaptureInputs == { "  an idea ", "  " }

AddInputs == { "- [ ] New task" }

\* the files of the run's start; the second vault may not exist
CacheFiles(withOther) ==
    LET paths == { getDailyNotePath(config, TestDate),
                   join3(config.vaultPath, ".trash", "old.md"),
                   join3(config.vaultPath, "Journal", "plan.txt"),
                   join3(config.vaultPath, "Journal", ".secret.md"),
                   join3(config.vaultPath, "Journal/.obsidian/plugins", "readme.md"),
                   join2(MeetingPath, "a.md") }
                   \cup (IF withOther THEN { join2(OtherVault, "note.md") } ELSE {})
    IN  [ p \in paths |->
            [ content |-> IF p = getDailyNotePath(config, TestDate) THEN getDailyNoteTemplate
                          ELSE IF dirname(p) = MeetingPath THEN MeetingContentOf("a.md")
                          ELSE "text",
              mtime   |-> 0 ] ]

----------------------------------------------------------------------------
(* The index cache: the steps of useSearchIndex and the commands that change
   the vault *)

\* a buildIndex(forceFresh) call of hook h, whose state before it is hook
\* (busy: the instances that had a build of the requested path in flight)
CallBuildIndex(h, hook, forceFresh) ==
    /\ requests.count < MaxRequests
    /\ hooks' = [ hooks EXCEPT ![h] = buildIndex(hook, indexCache, forceFresh, now) ]
    /\ requests' = [ count |-> requests.count + 1,
                     prev  |-> requests.cur,
                     cur   |-> Request(hook.vaultPath, forceFresh,
                                  buildIndexOutcome(hook, indexCache, forceFresh, now), now) ]
    /\ last' = [ op |-> "buildIndex", hook |-> h,
                 busy |-> { g \in Hooks : /\ hooks[g].buildInProgress
                                          /\ hooks[g].buildPath = hook.vaultPath } ]
    /\ UNCHANGED <<fs, dirs, now, appends, drops, indexCache>>

\* a component using useSearchIndex(vaultPath) mounts: first render, then the
\* effect calls buildIndex().  Instances are numbered in the order they mount.
Mount(h, vaultPath) ==
    /\ ~hooks[h].mounted
    /\ \A g \in Hooks : g < h => hooks[g].mounted
    /\ CallBuildIndex(h, FirstRender(vaultPath), FALSE)

\* the vaultPath argument of a mounted hook changes: the effect calls the new
\* buildIndex()
SetVaultPath(h, vaultPath) ==
    /\ hooks[h].mounted
    /\ hooks[h].vaultPath # vaultPath
    /\ CallBuildIndex(h, [ hooks[h] EXCEPT !.vaultPath = vaultPath ], FALSE)

\* refresh(): buildIndex(true)
Refresh(h) ==
    /\ hooks[h].mounted
    /\ CallBuildIndex(h, hooks[h], TRUE)

\* await showToast(...) of the loading toast returns; the timer is set
LoadingToastShown(h) ==
    /\ hooks[h].pc = "showToast"
    /\ hooks' = [ hooks EXCEPT ![h].pc = "setTimeout" ]
    /\ UNCHANGED <<fs, dirs, now, appends, drops, last, indexCache, requests>>

\* await showToast(...) of the loading toast rejects: buildIndex ends with the
\* rejection, before the try block of the timer callback is reached
LoadingToastFails(h) ==
    /\ hooks[h].pc = "showToast"
    /\ hooks' = [ hooks EXCEPT ![h].pc = "rejected" ]
    /\ UNCHANGED <<fs, dirs, now, appends, drops, last, indexCache, requests>>

\* the record of a setTimeout callback that has run; of one whose
\* buildSearchIndex threw, also the cache slot and the hook's index before it
BuildRun(h, err) ==
    IF err = NoError
    THEN [ op |-> "buildSearchIndex", hook |-> h, path |-> hooks[h].buildPath, err |-> err ]
    ELSE [ op |-> "buildSearchIndex", hook |-> h, path |-> hooks[h].buildPath, err |-> err,
           cache |-> indexCache, index |-> hooks[h].index ]

\* a callback whose catch block empties the cache slot
RunBuildDropsEntry(h) ==
    /\ hooks[h].pc = "setTimeout"
    /\ \E r \in { buildSearchIndex(FS, hooks[h].buildPath) } :
         /\ IF r.err = NoError
            THEN /\ indexCache' = CacheEntry(r.index, hooks[h].buildPath, now)
                 /\ hooks' = [ hooks EXCEPT ![h].index = IndexOf(r.index),
                                            ![h].isIndexing = FALSE,
                                            ![h].buildInProgress = FALSE,
                                            ![h].pc = "idle" ]
            ELSE /\ indexCache' = NoEntry
                 /\ hooks' = [ hooks EXCEPT ![h].error = r.err,
                                            ![h].pc = "failureToast" ]
         /\ last' = BuildRun(h, r.err)
    /\ UNCHANGED <<fs, dirs, now, appends, drops, requests>>

\* the setTimeout callback: buildSearchIndex, then the cache and the state
RunBuild(h) ==
    /\ hooks[h].pc = "setTimeout"
    /\ \E r \in { buildSearchIndex(FS, hooks[h].buildPath) } :
         /\ IF r.err = NoError
            THEN /\ indexCache' = CacheEntry(r.index, hooks[h].buildPath, now)
                 /\ hooks' = [ hooks EXCEPT ![h].index = IndexOf(r.index),
                                            ![h].isIndexing = FALSE,
                                            ![h].buildInProgress = FALSE,
                                            ![h].pc = "idle" ]
            ELSE /\ indexCache' = indexCache
                 /\ hooks' = [ hooks EXCEPT ![h].error = r.err,
                                            ![h].pc = "failureToast" ]
         /\ last' = BuildRun(h, r.err)
    /\ UNCHANGED <<fs, dirs, now, appends, drops, requests>>

\* await showToast(...) of the failure toast returns; the finally block runs
FailureToastShown(h) ==
    /\ hooks[h].pc = "failureToast"
    /\ hooks' = [ hooks EXCEPT ![h].isIndexing = FALSE,
                               ![h].buildInProgress = FALSE,
                               ![h].pc = "idle" ]
    /\ UNCHANGED <<fs, dirs, now, appends, drops, last, indexCache, requests>>

\* time passes
Tick ==
    /\ now < TestDate + MaxTicks * TickMs
    /\ now' = now + TickMs
    /\ UNCHANGED <<fs, dirs, appends, drops, last, indexCache, hooks, requests>>

\* the commands that have changed the vault: the captures in the inbox and
\* the appends to the daily note
CommandsRun ==
    appends + Cardinality({ p \in DOMAIN fs :
                              dirname(p) = join2(config.vaultPath, config.inboxPath) })

\* the capture command's handleSubmit
CaptureCommand(input) ==
    /\ CommandsRun < MaxCommands
    /\ \E content \in { trim(input) } :
         IF content = ""
         THEN /\ last' = [ op |-> "capture", done |-> FALSE ]
              /\ UNCHANGED <<fs, dirs>>
         ELSE \E r \in { createCaptureNote(FS, config, content, now) } :
                /\ fs' = r.fsys.files
                /\ dirs' = r.fsys.dirs
                /\ last' = [ op |-> "capture", done |-> TRUE ]
    /\ UNCHANGED <<now, appends, drops, indexCache, hooks, requests>>

\* the add command's handleSubmit, for the tasks section
AddCommand(input) ==
    /\ CommandsRun < MaxCommands
    /\ \E content \in { trim(input) } :
         /\ content # ""
         /\ \E e \in { ensureDailyNote(FS, config, now, now) } :
              \E r \in { appendToSection(e.fsys, getDailyNotePath(config, now),
                                         config.sections.tasks, content, now) } :
                /\ fs' = r.fsys.files
                /\ dirs' = r.fsys.dirs
                /\ last' = [ op |-> "add", done |-> r.err = NoError ]
    /\ appends' = appends + 1
    /\ UNCHANGED <<now, drops, indexCache, hooks, requests>>

\* the meeting command's handleImport
MeetingImportCommand(meeting) ==
    /\ CommandsRun < MaxCommands
    /\ \E r \in { importMeetingNote(FS, config, meeting, TRUE, now) } :
         /\ fs' = r.fsys.files
         /\ dirs' = r.fsys.dirs
         /\ last' = [ op |-> "import", done |-> r.err = NoError ]
    /\ appends' = appends + 1
    /\ UNCHANGED <<now, drops, indexCache, hooks, requests>>

InitCache ==
    /\ \E withOther \in BOOLEAN : fs = CacheFiles(withOther)
    /\ dirs = UNION { Ancestors(dirname(p)) : p \in DOMAIN fs }
    /\ now = TestDate
    /\ appends = 0
    /\ drops = 0
    /\ last = NoCall
    /\ indexCache = NoEntry
    /\ hooks = [ h \in Hooks |-> Unmounted ]
    /\ requests = [ count |-> 0, prev |-> NoRequest, cur |-> NoRequest ]

NextCache ==
    \/ \E h \in Hooks, p \in VaultPaths \cup { NoPath } : Mount(h, p)
    \/ \E h \in Hooks, p \in VaultPaths : SetVaultPath(h, p)
    \/ \E h \in Hooks : Refresh(h)
    \/ \E h \in Hooks : LoadingToastShown(h)
    \/ \E h \in Hooks : LoadingToastFails(h)
    \/ \E h \in Hooks : RunBuild(h)
    \/ \E h \in Hooks : FailureToastShown(h)
    \/ Tick
    \/ \E input \in CaptureInputs : CaptureCommand(input)
    \/ \E input \in AddInputs : AddCommand(input)
    \/ \E notes \in { listMeetingNotes(FS, MeetingPath,
                                       EnumerationOf(DirNames(fs, MeetingPath))) } :
          \E i \in 1 .. Len(notes) : MeetingImportCommand(notes[i])

SpecCache == InitCache /\ [][NextCache]_vars

----------------------------------------------------------------------------
(* Inputs of the search *)

\* the largest vault searched, in notes
MaxNotes == 52

\* notes edited or deleted after the index was built
MaxEdits == 2

SearchSizes == { 0, 1, MAX_RESULTS, MAX_RESULTS + 1, MaxNotes }

\* how the modification times of the notes run along their numbers
MtimePatterns == { "ascending", "descending", "ties" }

\* queries that trim to ''
BlankQueries == { "", " \n\t" }

RECURSIVE Repeat(_, _)
Repeat(s, k) == IF k = 0 THEN "" ELSE s \o Repeat(s, k - 1)

\* the notes lie in four folders of the vault
NotePath(i) ==
    join3(config.vaultPath, "Notes" \o ToString(i % 4), "n" \o ToString(i) \o ".md")

\* note 1 is longer than the index keeps, note 2 longer than a preview shows
NoteContent(i) ==
    IF i = 1 THEN Repeat("0123456789", 60)
    ELSE IF i = 2 THEN Repeat("abcde", 30)
    ELSE "note " \o ToString(i)

NoteMtime(i, n, pattern) ==
    CASE pattern = "ascending"  -> i
      [] pattern = "descending" -> n + 1 - i
      [] pattern = "ties"       -> 1 + (i % 3)

\* a vault of n notes
SearchFiles(n, pattern) ==
    [ p \in { NotePath(i) : i \in 1 .. n } |->
        LET i == CHOOSE k \in 1 .. n : NotePath(k) = p
        IN  [ content |-> NoteContent(i), mtime |-> NoteMtime(i, n, pattern) ] ]

\* the notes the user edits or deletes in the vault
EditedNotes == { NotePath(1), NotePath(3) }

\* the notes changed since the index was built
ChangedNotes ==
    { p \in EditedNotes : p \notin DOMAIN fs \/ fs[p].mtime >= TestDate }

----------------------------------------------------------------------------
(* The search: a command that holds the index of its hook and lists the
   recent files, in a vault whose notes the user edits and deletes *)

\* searchVault(index, query) of a command, with the index of its hook
SearchVault(h, query) ==
    /\ ~hooks[h].index.isNull
    /\ trim(query) = ""
    /\ last' = [ op |-> "searchVault", query |-> query, pre |-> fs,
                 ret |-> searchVault(fs, hooks[h].index.entries) ]
    /\ UNCHANGED <<fs, dirs, now, appends, drops, indexCache, hooks, requests>>

\* the user saves a note in the editor
EditNote(path) ==
    /\ Cardinality(ChangedNotes) < MaxEdits
    /\ path \in DOMAIN fs
    /\ fs[path].mtime < now
    /\ fs' = writeFileSync(fs, path, fs[path].content, now)
    /\ UNCHANGED <<dirs, now, appends, drops, last, indexCache, hooks, requests>>

\* the user deletes a note
DeleteNote(path) ==
    /\ Cardinality(ChangedNotes) < MaxEdits
    /\ path \in DOMAIN fs
    /\ fs' = [ p \in (DOMAIN fs) \ { path } |-> fs[p] ]
    /\ UNCHANGED <<dirs, now, appends, drops, last, indexCache, hooks, requests>>

\* a command whose useSearchIndex has built the index of the vault
InitSearch ==
    /\ \E n \in SearchSizes, pattern \in MtimePatterns : fs = SearchFiles(n, pattern)
    /\ dirs = { config.vaultPath } \cup { dirname(p) : p \in DOMAIN fs }
    /\ now = TestDate
    /\ appends = 0
    /\ drops = 0
    /\ last = NoCall
    /\ \E r \in { buildSearchIndex(FS, config.vaultPath) } :
         /\ indexCache = CacheEntry(r.index, config.vaultPath, now)
         /\ hooks = [ h \in { 1 } |->
                        [ FirstRender(config.vaultPath) EXCEPT !.index = IndexOf(r.index),
                                                               !.isIndexing = FALSE ] ]
    /\ requests = [ count |-> 1, prev |-> NoRequest,
                    cur |-> Request(config.vaultPath, FALSE, "build", now) ]

NextSearch ==
    \/ \E q \in BlankQueries : SearchVault(1, q)
    \/ \E p \in EditedNotes : EditNote(p)
    \/ \E p \in EditedNotes : DeleteNote(p)

SpecSearch == InitSearch /\ [][NextSearch]_vars

----------------------------------------------------------------------------
(* Helpers of the properties *)

\* sub occurs in s at 0-based offset k
OccursAt(s, sub, k) ==
    k >= 0 /\ k + Len(sub) <= Len(s) /\ SubSeq(s, k + 1, k + Len(sub)) = sub

Occurs(s, sub) == \E k \in 0 .. Len(s) : OccursAt(s, sub, k)

\* the one-character string at 0-based offset i
CharAt(s, i) == SubSeq(s, i + 1, i + 1)

\* the 0-based offsets of the newlines of s, and the end of s, in order
LineEnds(s) ==
    LET nl == { i \in 0 .. Len(s) - 1 : CharAt(s, i) = "\n" } \cup { Len(s) }
    IN  [ k \in 1 .. Cardinality(nl) |->
            CHOOSE i \in nl : Cardinality({ j \in nl : j < i }) = k - 1 ]

\* the lines of s: the text between consecutive newlines
Lines(s) ==
    LET e == LineEnds(s)
    IN  [ k \in 1 .. Len(e) |-> slice(s, IF k = 1 THEN 0 ELSE e[k - 1] + 1, e[k]) ]

\* number of newlines in the first k characters of s
NewlinesBefore(s, k) == Cardinality({ i \in 0 .. k - 1 : CharAt(s, i) = "\n" })

Min(S) == CHOOSE x \in S : \A y \in S : x <= y

----------------------------------------------------------------------------
(* Properties of the vault operations (SpecVault) *)

\* C1: ensureDailyNote on a date whose note already exists, whatever
\* ensureDailyNote and appendToSection calls came before, leaves the file as
\* it was (same bytes, not rewritten) and returns the path of that date's note.
C1_EnsureKeepsExistingNote ==
    (last.op = "ensureDailyNote" /\ last.old.exists)
        => /\ ContentOf(fs, last.path) = last.old
           /\ last.ret = last.path

\* C1 witness: ensureDailyNote was called on a note that earlier appends had
\* already changed.
C1_Witness ==
    /\ last.op = "ensureDailyNote"
    /\ last.old.exists
    /\ appends > 0
    /\ last.old.content \notin InitialDailyContents \cup {getDailyNoteTemplate}

\* C2: a successful appendToSection writes old[0..p) + "\n" + content + old[p..)
\* with p the first newline at or after the end of the first occurrence of the
\* marker (the end of the marker when no newline follows); line by line, the
\* content's lines sit right below the marker's line and every other line is
\* unchanged and in place.
C2_AppendSplicesBelowMarker ==
    (last.op = "appendToSection" /\ last.err = NoError)
        => LET old == last.old.content
               new == fs[last.path].content
               m   == last.header
               h   == Min({ k \in 0 .. Len(old) : OccursAt(old, m, k) })
               e   == h + Len(m)
               nls == { i \in e .. Len(old) - 1 : CharAt(old, i) = "\n" }
               p   == IF nls = {} THEN e ELSE Min(nls)
               j   == NewlinesBefore(old, h) + 1
               L   == Lines(old)
           IN  /\ last.old.exists
               /\ Occurs(old, m)
               /\ new = SubSeq(old, 1, p) \o "\n" \o last.content
                            \o SubSeq(old, p + 1, Len(old))
               /\ Lines(new) = SubSeq(L, 1, j) \o Lines(last.content)
                                  \o SubSeq(L, j + 1, Len(L))

\* C2 witness: content was appended below a header of the template that has
\* headers before and after it.
C2_Witness ==
    /\ last.op = "appendToSection"
    /\ last.err = NoError
    /\ last.header = config.sections.meetingNotes
    /\ last.old.content = getDailyNoteTemplate

\* C3: appendToSection with a marker that does not occur in the file fails with
\* the section-not-found error and the file is left as it was, unwritten.
C3_MissingSectionFailsWithoutWrite ==
    (last.op = "appendToSection" /\ last.old.exists
        /\ ~Occurs(last.old.content, last.header))
        => /\ last.err = SectionNotFound(last.header)
           /\ ContentOf(fs, last.path) = last.old

\* C3 witness: an append below "## NonExistent" failed on an existing note.
C3_Witness ==
    /\ last.op = "appendToSection"
    /\ last.old.exists
    /\ last.header = "## NonExistent"
    /\ last.err = SectionNotFound("## NonExistent")

----------------------------------------------------------------------------
(* Properties of the meeting import (SpecImport) *)

\* the names a listing of the meeting folder returns when the files are
\* files, over every readdir order
ListedNamesIn(files) ==
    UNION { { note.filename :
                 note \in { l[i] : i \in 1 .. Len(l) } } :
            l \in { listMeetingNotes([files |-> files, dirs |-> dirs], MeetingPath, o) :
                       o \in ReaddirOrders(files, MeetingPath) } }

ListedNames == ListedNamesIn(fs)

ArchiveNameOf(filename) == ".imported-" \o filename

ArchivePathIn(dir, filename) == dir \o "/" \o ArchiveNameOf(filename)

\* the daily note of the call recorded in last lacked the Meeting Notes header
DailyLackedSection ==
    /\ getDailyNotePath(config, now) \in DOMAIN last.pre
    /\ ~Occurs(last.pre[getDailyNotePath(config, now)].content, "## Meeting Notes")

C4_AfterArchivingImport ==
    (last.op = "importMeetingNote" /\ last.archive /\ last.err = NoError)
        => /\ last.note.path \notin DOMAIN fs
           /\ ArchivePathIn(MeetingPath, last.note.filename) \in DOMAIN fs
           /\ fs[ArchivePathIn(MeetingPath, last.note.filename)]
                 = last.pre[last.note.path]
           /\ last.note.filename \notin ListedNames
           /\ ArchiveNameOf(last.note.filename) \notin ListedNames

C4_NoArchiveListed ==
    /\ \A n \in ListedNames : ~startsWith(n, ".imported-")
    /\ last.op = "listMeetingNotes"
          => \A i \in 1 .. Len(last.ret) : ~startsWith(last.ret[i].filename, ".imported-")

C4_ImportAddsNoSource ==
    last.op \in { "importMeetingNote", "importAllMeetingNotes" }
        => ListedNames \subseteq ListedNamesIn(last.pre)

\* C4: after importMeetingNote succeeds with archiving, the source is gone
\* under its name and is there, unchanged, as ".imported-" + name, and a
\* listing returns neither name; no listing ever returns an archived name, and
\* no import adds a name to what a listing returns (only the meeting app
\* writing a new file does).
C4_ArchivedSourceNeverListed ==
    /\ C4_AfterArchivingImport
    /\ C4_NoArchiveListed
    /\ C4_ImportAddsNoSource

\* C4 witness: an import with archiving succeeded and left the archive file.
C4_Witness ==
    /\ last.op = "importMeetingNote"
    /\ last.archive
    /\ last.err = NoError
    /\ last.note.path \in DOMAIN last.pre
    /\ ArchivePathIn(MeetingPath, last.note.filename) \in DOMAIN fs

\* what C5 says of the files: the earlier archive and the source are untouched
C5_ArchiveAndSourceKept ==
    /\ fs[ArchivePathIn(MeetingPath, last.note.filename)]
          = last.pre[ArchivePathIn(MeetingPath, last.note.filename)]
    /\ last.note.path \in DOMAIN last.pre
          => /\ last.note.path \in DOMAIN fs
             /\ fs[last.note.path] = last.pre[last.note.path]

C5_Collision ==
    /\ last.op = "importMeetingNote"
    /\ last.archive
    /\ ArchivePathIn(MeetingPath, last.note.filename) \in DOMAIN last.pre

\* C5 as stated: whenever ".imported-" + name exists, importMeetingNote with
\* archiving fails with the already-archived error, leaving archive and source.
C5_Original ==
    C5_Collision
        => /\ last.err = "Archive file already exists: "
                            \o ArchivePathIn(MeetingPath, last.note.filename)
           /\ C5_ArchiveAndSourceKept

\* C5 amended: whenever ".imported-" + name exists, importMeetingNote with
\* archiving fails: with the section-not-found error of the append when the
\* daily note lacks the Meeting Notes header (the append comes first), with
\* the already-archived error otherwise; either way the earlier archive is
\* neither overwritten nor removed and the source is not renamed.
C5_CollisionFailsKeepingArchive ==
    C5_Collision
        => /\ last.err = IF DailyLackedSection
                         THEN "Section \"## Meeting Notes\" not found in file"
                         ELSE "Archive file already exists: "
                                 \o ArchivePathIn(MeetingPath, last.note.filename)
           /\ C5_ArchiveAndSourceKept

\* C5 witness: an import failed with the already-archived error.
C5_Witness ==
    /\ C5_Collision
    /\ last.note.path \in DOMAIN last.pre
    /\ last.err = "Archive file already exists: "
                     \o ArchivePathIn(MeetingPath, last.note.filename)

\* why a listed note fails in the bulk import recorded in last: its own
\* archive name was taken, or the daily note lacked the Meeting Notes header
C6_Fails(note) ==
    \/ DailyLackedSection
    \/ last.archive /\ ArchivePathIn(MeetingPath, note.filename) \in DOMAIN last.pre

----------------------------------------------------------------------------
(* Properties of the index cache (SpecCache) *)

\* of two successive buildIndex calls for the same vault path, made less than
\* the TTL apart, the first having started a build and the second not being a
\* forced refresh, the second is served from the cache
C7_SecondRequestServed ==
    (/\ requests.count >= 2
     /\ requests.cur.path = requests.prev.path
     /\ requests.cur.path # NoPath
     /\ ~requests.cur.force
     /\ requests.cur.at - requests.prev.at < 5 * 60 * 1000
     /\ requests.prev.outcome = "build")
        => requests.cur.outcome = "cache"

\* a buildIndex call for another vault path than the call before it starts a
\* build
C7_OtherPathBuilds ==
    (/\ requests.count >= 2
     /\ requests.prev.path # NoPath
     /\ requests.cur.path # NoPath
     /\ requests.cur.path # requests.prev.path)
        => requests.cur.outcome = "build"

\* a build that succeeded has put its own vault path's entry in the one slot
C7_SlotReplaced ==
    (last.op = "buildSearchIndex" /\ last.err = NoError)
        => (~indexCache.isNull /\ indexCache.vaultPath = last.path)

\* C7: two successive index requests for the same vault path less than the
\* TTL (5 minutes) apart, with no invalidation or forced refresh in between,
\* run buildSearchIndex once, the second being served from the cache; a
\* request for a different vault path always starts a fresh build, whose
\* entry then replaces the one in the single slot.
C7_Original ==
    /\ C7_SecondRequestServed
    /\ C7_OtherPathBuilds
    /\ C7_SlotReplaced

\* hook h has a build in flight: its guard is set and not yet cleared
InFlight(h) == hooks[h].buildInProgress

\* C8: at most one build per vault path is in flight in the process at any
\* time, whichever mounted useSearchIndex instances issue the requests.
C8_Original ==
    \A g \in Hooks, h \in Hooks :
        (g # h /\ InFlight(g) /\ InFlight(h)) => hooks[g].buildPath # hooks[h].buildPath

\* when a capture, add or import command has changed the vault, the slot is
\* empty
C9_SlotClearedAfterCommand ==
    (last.op \in { "capture", "add", "import" } /\ last.done) => indexCache.isNull

\* a buildIndex call served from the cache gives the hook the index of the
\* vault as it is on disk
C9_ServedIndexIsCurrent ==
    (last.op = "buildIndex" /\ requests.cur.outcome = "cache")
        => hooks[last.hook].index.entries
             = buildSearchIndex(FS, requests.cur.path).index

\* C9: after a capture, an add or an import completes, the index cache slot
\* has been cleared, so an index request that follows within the TTL never
\* returns an index that was built before that change of the vault.
C9_Original ==
    /\ C9_SlotClearedAfterCommand
    /\ C9_ServedIndexIsCurrent

----------------------------------------------------------------------------
(* Properties of the search (SpecSearch) *)

\* the modification time of the file at path when the search ran; a file
\* that is gone counts as the oldest
ModTime(files, path) == IF path \in DOMAIN files THEN files[path].mtime ELSE 0

\* C10: searchVault with an empty or whitespace-only query returns at most 50
\* results, even when the index has more entries, each with score 0 and a
\* preview of at most 100 characters, in descending order of the modification
\* time their files have on disk, and every result's path is the path of an
\* index entry.
C10_BlankQueryListsRecent ==
    last.op = "searchVault" =>
        LET ret   == last.ret
            index == hooks[1].index.entries
        IN  /\ Len(ret) <= 50
            /\ \A i \in 1 .. Len(ret) :
                  /\ ret[i].score = 0
                  /\ Len(ret[i].preview) <= 100
                  /\ \E k \in 1 .. Len(index) : index[k].path = ret[i].path
            /\ \A i \in 1 .. Len(ret), j \in 1 .. Len(ret) :
                  i < j => ModTime(last.pre, ret[i].path) >= ModTime(last.pre, ret[j].path)

\* C10 witness: a whitespace-only query on an index of more than 50 entries
\* returned 50 results, one with a preview cut at 100 characters, with files
\* of different modification times, one edited and one deleted since the
\* index was built.
C10_Witness ==
    /\ last.op = "searchVault"
    /\ last.query # ""
    /\ Len(hooks[1].index.entries) > 50
    /\ Len(last.ret) = 50
    /\ \E i \in 1 .. Len(last.ret) : Len(last.ret[i].preview) = 100
    /\ ModTime(last.pre, last.ret[1].path) > ModTime(last.pre, last.ret[50].path)
    /\ \E k \in 1 .. Len(hooks[1].index.entries) :
          hooks[1].index.entries[k].path \notin DOMAIN last.pre
    /\ \E p \in DOMAIN last.pre : last.pre[p].mtime >= TestDate

----------------------------------------------------------------------------
(* Claims about the index builder's filter *)

\* the names of the path segments of path below the directory root
SegmentsBelow(root, path) ==
    LET segs == split(sliceFrom(path, Len(root) + 1), "/", 0)
    IN  { segs[i] : i \in 1 .. Len(segs) }

\* the paths of the entries of an index
IndexedPaths(index) == { index[k].path : k \in 1 .. Len(index) }

\* C11: every entry of an index built by buildSearchIndex is a file whose name
\* ends in ".md" and lies below the vault root, and no segment of its path
\* below the vault root starts with a dot, at any nesting depth.
C11_IndexHasNoHiddenOrNonMarkdown ==
    ~indexCache.isNull =>
        \A p \in IndexedPaths(indexCache.index) :
            /\ startsWith(p, indexCache.vaultPath \o "/")
            /\ endsWith(p, ".md")
            /\ p \notin dirs
            /\ \A seg \in SegmentsBelow(indexCache.vaultPath, p) : ~startsWith(seg, ".")

\* a build of the vault has indexed a note of a nested visible folder while
\* the vault holds a markdown file in a hidden folder two levels down, a
\* hidden markdown file and a file that is not markdown
C11_Witness ==
    /\ last.op = "buildSearchIndex" /\ last.err = NoError
    /\ indexCache.vaultPath = config.vaultPath
    /\ getDailyNotePath(config, TestDate) \in IndexedPaths(indexCache.index)
    /\ join3(config.vaultPath, "Journal/.obsidian/plugins", "readme.md") \in DOMAIN fs
    /\ join3(config.vaultPath, "Journal", ".secret.md") \in DOMAIN fs
    /\ join3(config.vaultPath, "Journal", "plan.txt") \in DOMAIN fs

----------------------------------------------------------------------------
(* Capture notes: createCaptureNote called with dates of the same and of
   different seconds *)

\* 2026-01-15 14:35:42, the date of the filename test
CaptureTestDate == TestDate + 42 * 1000

\* the same second, the next second, the same second of the next minute, of
\* the next hour, of twelve hours earlier and of the next day
CaptureDates ==
    { CaptureTestDate, CaptureTestDate + 999, CaptureTestDate + 1000,
      CaptureTestDate + 60 * 1000, CaptureTestDate + 60 * 60 * 1000,
      CaptureTestDate - 12 * 60 * 60 * 1000, CaptureTestDate + MsPerDay }

CaptureContents == { "an idea", "a longer second idea", "" }

InboxDir == join2(config.vaultPath, config.inboxPath)

\* a note the user keeps in the inbox
InboxNote == join2(InboxDir, "idea.md")

\* the calls of createCaptureNote so far: date, content and returned note
CaptureLog == last.log

CreateCaptureNote(content, date) ==
    /\ Len(CaptureLog) < MaxCaptures
    /\ \E r \in { createCaptureNote(FS, config, content, date) } :
         /\ fs' = r.fsys.files
         /\ dirs' = r.fsys.dirs
         /\ last' = [ op  |-> "createCaptureNote",
                      log |-> Append(CaptureLog, [ date |-> date, content |-> content,
                                                   note |-> r.note ]),
                      pre |-> fs ]
    /\ UNCHANGED <<now, appends, drops, indexCache, hooks, requests>>

InitCapture ==
    /\ \E withInbox, withDaily \in BOOLEAN :
         /\ fs = [ p \in (IF withInbox THEN { InboxNote } ELSE {})
                          \cup (IF withDaily THEN { getDailyNotePath(config, TestDate) }
                                ELSE {}) |->
                     IF p = InboxNote THEN [content |-> "text", mtime |-> 0]
                     ELSE [content |-> getDailyNoteTemplate, mtime |-> 0] ]
         /\ dirs = (IF withInbox THEN Ancestors(InboxDir) ELSE {})
                      \cup (IF withDaily THEN Ancestors(dirname(getDailyNotePath(config, TestDate)))
                            ELSE {})
    /\ now = TestDate
    /\ appends = 0
    /\ drops = 0
    /\ last = [ op |-> "createCaptureNote", log |-> << >>, pre |-> fs ]
    /\ NoHookMounted

NextCapture == \E c \in CaptureContents, d \in CaptureDates : CreateCaptureNote(c, d)

SpecCapture == InitCapture /\ [][NextCapture]_vars

\* the wall-clock second a date falls in
SecondOf(date) == date \div 1000

\* the last call of the log that returned path
LastCaptureAt(path) ==
    CHOOSE i \in 1 .. Len(CaptureLog) :
        /\ CaptureLog[i].note.path = path
        /\ \A j \in i + 1 .. Len(CaptureLog) : CaptureLog[j].note.path # path

\* C12: generateCaptureFilename formats the date as
\* 'capture-YYYY-MM-DD-HHmmss.md' (2026-01-15 14:35:42 gives
\* 'capture-2026-01-15-143542.md'); two createCaptureNote calls return the same
\* path exactly when their dates fall in the same second; every returned path
\* then holds exactly the note of the last call that returned it, so a later
\* capture of the same second replaces the earlier one in full and captures
\* of other seconds leave it untouched; files that no capture returned keep
\* their content.
C12_CapturePathPerSecond ==
    /\ \A i \in 1 .. Len(CaptureLog) :
          /\ CaptureLog[i].note.path = join2(InboxDir, CaptureLog[i].note.filename)
          /\ CaptureLog[i].date = CaptureTestDate
                => CaptureLog[i].note.filename = "capture-2026-01-15-143542.md"
          /\ startsWith(CaptureLog[i].note.filename, "capture-")
          /\ endsWith(CaptureLog[i].note.filename, ".md")
          /\ Len(CaptureLog[i].note.filename) = Len("capture-YYYY-MM-DD-HHmmss.md")
          /\ CaptureLog[i].note.path \in DOMAIN fs
          /\ fs[CaptureLog[i].note.path].content
                = CaptureLog[LastCaptureAt(CaptureLog[i].note.path)].note.content
    /\ \A i, j \in 1 .. Len(CaptureLog) :
          (CaptureLog[i].note.path = CaptureLog[j].note.path)
             <=> (SecondOf(CaptureLog[i].date) = SecondOf(CaptureLog[j].date))
    /\ \A p \in DOMAIN fs :
          (\A i \in 1 .. Len(CaptureLog) : CaptureLog[i].note.path # p)
             => \/ p = InboxNote /\ fs[p].content = "text"
                \/ /\ p = getDailyNotePath(config, TestDate)
                   /\ fs[p].content = getDailyNoteTemplate

\* two captures of different content in the same second were followed by a
\* capture in another second
C12_Witness ==
    /\ Len(CaptureLog) = 3
    /\ CaptureLog[1].note.path = CaptureLog[2].note.path
    /\ CaptureLog[1].date # CaptureLog[2].date
    /\ CaptureLog[1].note.content # CaptureLog[2].note.content
    /\ CaptureLog[3].note.path # CaptureLog[1].note.path
    /\ fs[CaptureLog[1].note.path].content = CaptureLog[2].note.content

----------------------------------------------------------------------------
(* The voice import: inputs and actions *)

\* config.voicePath
VoicePath == "/voice"

VoiceNames == { "a.txt", "b.md", "C.TXT" }

\* files of the folder that listTranscriptions has to leave out
VoiceOtherNames == { ".hidden.txt", "memo.wav" }

VoiceContentOf(filename) ==
    IF filename = "a.txt" THEN " call the plumber \n"
    ELSE IF filename = "b.md" THEN "idea for the talk"
    ELSE "buy milk\n"

\* modification times of the transcriptions: a.txt and b.md were written in
\* the same second (1:35:10pm), C.TXT a minute later
VoiceTimeOf(filename) ==
    IF filename = "a.txt" THEN TestDate - 60 * 60 * 1000 + 10 * 1000
    ELSE IF filename = "b.md" THEN TestDate - 60 * 60 * 1000 + 10 * 1000 + 500
    ELSE TestDate - 59 * 60 * 1000

\* the name of the archive of a source file
VoiceArchive(filename) == join2(VoicePath, IMPORTED_PREFIX \o filename)

\* the orders readdirSync can return the names of the voice folder in, the
\* names that listTranscriptions filters out first
TranscriptionOrders ==
    LET names   == DirNames(fs, VoicePath)
        kept    == { n \in names : isTranscriptionFile(n) }
        skipped == CHOOSE o \in Orderings(names \ kept) : TRUE
    IN  { skipped \o o : o \in Orderings(kept) }

\* reading the property key of an array: arrays carry 'length' and their
\* indices, any other property is undefined
Undefined == "undefined"
ArrayProperty(items, key) == IF key = "length" THEN ToString(Len(items)) ELSE Undefined

ListTranscriptions(order) ==
    /\ last' = [ op |-> "listTranscriptions", ret |-> listTranscriptions(FS, VoicePath, order) ]
    /\ UNCHANGED <<fs, dirs, now, appends, drops, indexCache, hooks, requests>>

\* handleImport of the voice command
ImportTranscription(transcription, archiveAfterImport) ==
    \E r \in { importTranscription(FS, config, transcription, archiveAfterImport, now) } :
        /\ appends < MaxImports
        /\ appends' = appends + 1
        /\ fs' = r.fsys.files
        /\ dirs' = r.fsys.dirs
        /\ last' = [ op |-> "importTranscription", source |-> transcription,
                     archive |-> archiveAfterImport, err |-> r.err,
                     ret |-> r.result, pre |-> fs ]
        /\ UNCHANGED <<now, drops, indexCache, hooks, requests>>

\* handleImportAll of the voice command
ImportAllTranscriptions(order, archiveAfterImport) ==
    \E r \in { importAllTranscriptions(FS, config, VoicePath, order,
                                        archiveAfterImport, now) } :
        /\ appends + Len(r.transcriptions) <= MaxImports
        /\ appends' = appends + Len(r.transcriptions)
        /\ fs' = r.fsys.files
        /\ dirs' = r.fsys.dirs
        /\ last' = [ op |-> "importAllTranscriptions", archive |-> archiveAfterImport,
                     transcriptions |-> r.transcriptions, err |-> r.err,
                     ret |-> r.items, pre |-> fs ]
        /\ UNCHANGED <<now, drops, indexCache, hooks, requests>>

\* the dictation app writes a new transcription into its folder
DropTranscription(filename) ==
    /\ drops < MaxDrops
    /\ VoicePath \in dirs
    /\ join2(VoicePath, filename) \notin DOMAIN fs
    /\ drops' = drops + 1
    /\ fs' = writeFileSync(fs, join2(VoicePath, filename), "said again", now)
    /\ last' = [ op |-> "drop", path |-> join2(VoicePath, filename) ]
    /\ UNCHANGED <<dirs, now, appends, indexCache, hooks, requests>>

InitVoice ==
    /\ now = TestDate
    /\ appends = 0
    /\ drops = 0
    /\ last = NoCall
    /\ NoHookMounted
    /\ \/ /\ fs = << >>                                 \* no voice folder at all
          /\ dirs = {}
       \/ \E present \in { {"a.txt"}, VoiceNames }, seeded \in SUBSET { "a.txt" },
             blocked \in SUBSET { "b.md" } :
               /\ fs = [ p \in { join2(VoicePath, n) : n \in present \cup VoiceOtherNames }
                                \cup { VoiceArchive(n) : n \in seeded } |->
                           IF basename(p) \in present
                           THEN [ content |-> VoiceContentOf(basename(p)),
                                  mtime   |-> VoiceTimeOf(basename(p)) ]
                           ELSE [ content |-> "old", mtime |-> 0 ] ]
               \* a folder that has the name of b.md's archive
               /\ dirs = { VoicePath } \cup { VoiceArchive(n) : n \in blocked }

NextVoice ==
    \/ \E order \in TranscriptionOrders :
          \/ ListTranscriptions(order)
          \/ \E listed \in { listTranscriptions(FS, VoicePath, order) } :
                \E i \in 1 .. Len(listed), archive \in BOOLEAN :
                   ImportTranscription(listed[i], archive)
          \/ \E archive \in BOOLEAN : ImportAllTranscriptions(order, archive)
    \/ \E n \in { "a.txt" } : DropTranscription(n)

SpecVoice == InitVoice /\ [][NextVoice]_vars

\* C13: importAllTranscriptions returns an object with results and errors and
\* never fails as a whole: a transcription whose import fails is recorded in
\* errors and the remaining ones are still imported (with archiving, every
\* listed source whose archive name is free ends up archived); with no
\* failure results has one entry per listed transcription and errors is empty.
C13_Original ==
    last.op = "importAllTranscriptions" =>
        /\ last.err = NoError
        /\ ArrayProperty(last.ret, "results") # Undefined
        /\ ArrayProperty(last.ret, "errors") # Undefined
        /\ \A i \in 1 .. Len(last.transcriptions) :
              (last.archive /\ VoiceArchive(last.transcriptions[i].filename) \notin dirs)
                 => last.transcriptions[i].path \notin DOMAIN fs

\* C14: importTranscription with archiving fails with the already-archived
\* error when '.imported-' + the source's filename exists in the source folder,
\* and leaves that archive file as it was.
C14_Original ==
    (/\ last.op = "importTranscription"
     /\ last.archive
     /\ VoiceArchive(last.source.filename) \in DOMAIN last.pre)
        => /\ last.err = AlreadyArchived(VoiceArchive(last.source.filename))
           /\ fs[VoiceArchive(last.source.filename)]
                 = last.pre[VoiceArchive(last.source.filename)]

----------------------------------------------------------------------------
(* The today command, run with the vault path preference the user has set *)

\* values of the vault path preference: unset, empty, absolute, with a
\* trailing slash, relative, below the home directory
VaultPathPrefs ==
    { UndefinedPref, Pref(""), Pref("/vault"), Pref("/vault/"), Pref("notes"),
      Pref("~/vault"), Pref("~") }

\* the today command: getConfig(), then ensureDailyNote(config); an exception
\* of either is caught and shown
TodayCommand(vaultPath) ==
    /\ \E c \in { getConfig([ vaultPath |-> vaultPath ]) } :
         IF c.err # NoError
         THEN /\ last' = [ op |-> "today", pref |-> vaultPath, err |-> c.err,
                           vaultPath |-> "", ret |-> "", pre |-> fs ]
              /\ UNCHANGED <<fs, dirs>>
         ELSE \E r \in { ensureDailyNote(FS, c.config, now, now) } :
                /\ fs' = r.fsys.files
                /\ dirs' = r.fsys.dirs
                /\ last' = [ op |-> "today", pref |-> vaultPath, err |-> NoError,
                             vaultPath |-> c.config.vaultPath, ret |-> r.ret, pre |-> fs ]
    /\ UNCHANGED <<now, appends, drops, indexCache, hooks, requests>>

\* the next day begins
DayPasses ==
    /\ now < TestDate + MaxDays * MsPerDay
    /\ now' = now + MsPerDay
    /\ UNCHANGED <<fs, dirs, appends, drops, last, indexCache, hooks, requests>>

InitConfig ==
    /\ \E withVault \in BOOLEAN :
         /\ fs = IF withVault
                 THEN [ p \in { getDailyNotePath(config, TestDate) } |->
                          [content |-> "Existing content", mtime |-> 0] ]
                 ELSE << >>
         /\ dirs = IF withVault THEN VaultDirs ELSE {}
    /\ now = TestDate
    /\ appends = 0
    /\ drops = 0
    /\ last = NoCall
    /\ NoHookMounted

NextConfig ==
    \/ \E v \in VaultPathPrefs : TodayCommand(v)
    \/ DayPasses

SpecConfig == InitConfig /\ [][NextConfig]_vars

\* C15: when the vault path preference is unset or the empty string, getConfig
\* fails, so the command that called it ends with an error and has done no
\* file operation; no config is returned for such a preference.
C15_Original ==
    (last.op = "today" /\ (last.pref.isUndefined \/ last.pref.value = ""))
        => last.err # NoError /\ fs = last.pre /\ last.vaultPath = ""

----------------------------------------------------------------------------
(* importMeetingNote statement by statement, in a process that can die
   between two statements *)

\* faulty variant: the source is archived before the daily note is written
importStepsArchiveFirst == << "ensure", "archive", "append" >>

\* the statements of importMeetingNote that touch the disk, in their order
importSteps == << "ensure", "append", "archive" >>

\* the statement after pc, "idle" after the last one
StepAfter(pc) ==
    LET i == CHOOSE k \in 1 .. Len(importSteps) : importSteps[k] = pc
    IN  IF i = Len(importSteps) THEN "idle" ELSE importSteps[i + 1]

NoNote == [ filename |-> "", path |-> "", content |-> "", timestamp |-> 0, title |-> "" ]

\* the call of importMeetingNote in progress, or the last one: its position,
\* its arguments and locals, how it ended, and what the calls so far have
\* appended (written) and renamed, and the notes whose call died between the
\* append and the archive statement (died)
Idle(err, crashedAt) ==
    [ last EXCEPT !.pc = "idle", !.err = err, !.crashedAt = crashedAt,
                  !.died = IF crashedAt = "archive" THEN last.died \cup { last.note }
                           ELSE last.died ]

\* handleImport calls importMeetingNote(config, note, archiveAfterImport)
StartImport(note, archiveAfterImport) ==
    /\ last.pc = "idle"
    /\ appends < MaxTries
    /\ appends' = appends + 1
    /\ last' = [ last EXCEPT !.pc = importSteps[1], !.note = note,
                             !.archive = archiveAfterImport, !.dailyNotePath = "",
                             !.err = NoError, !.crashedAt = "" ]
    /\ UNCHANGED <<fs, dirs, now, drops, indexCache, hooks, requests>>

\* const dailyNotePath = ensureDailyNote(config)
EnsureStep ==
    /\ last.pc = "ensure"
    /\ \E r \in { ensureDailyNote(FS, config, now, now) } :
         /\ fs' = r.fsys.files
         /\ dirs' = r.fsys.dirs
         /\ last' = [ last EXCEPT !.pc = StepAfter("ensure"), !.dailyNotePath = r.ret ]
    /\ UNCHANGED <<now, appends, drops, indexCache, hooks, requests>>

\* appendToSection(dailyNotePath, config.sections.meetingNotes, formattedContent)
AppendStep ==
    /\ last.pc = "append"
    /\ \E r \in { appendToSection(FS, last.dailyNotePath, config.sections.meetingNotes,
                                    formatMeetingContent(last.note), now) } :
         /\ fs' = r.fsys.files
         /\ dirs' = r.fsys.dirs
         /\ last' = IF r.err # NoError THEN Idle(r.err, "")
                    ELSE [ last EXCEPT !.pc = StepAfter("append"),
                                       !.written = Append(last.written, last.note) ]
    /\ UNCHANGED <<now, appends, drops, indexCache, hooks, requests>>

\* if (archiveAfterImport) { existsSync check; renameSync }
ArchiveStep ==
    /\ last.pc = "archive"
    /\ IF ~last.archive
       THEN /\ last' = [ last EXCEPT !.pc = StepAfter("archive") ]
            /\ UNCHANGED <<fs, dirs>>
       ELSE \E r \in { archiveSource(FS, last.note) } :
              /\ fs' = r.fsys.files
              /\ dirs' = r.fsys.dirs
              /\ last' = IF r.err # NoError THEN Idle(r.err, "")
                         ELSE [ last EXCEPT !.pc = StepAfter("archive"),
                                            !.renamed = last.renamed \cup { last.note } ]
    /\ UNCHANGED <<now, appends, drops, indexCache, hooks, requests>>

\* the process dies before the statement at pc has run
Crash ==
    /\ last.pc # "idle"
    /\ last' = Idle("crashed", last.pc)
    /\ UNCHANGED <<fs, dirs, now, appends, drops, indexCache, hooks, requests>>

InitImportSteps ==
    /\ now = TestDate
    /\ appends = 0
    /\ drops = 0
    /\ last = [ op |-> "importMeetingNote", pc |-> "idle", note |-> NoNote,
                archive |-> FALSE, dailyNotePath |-> "", err |-> NoError,
                crashedAt |-> "", written |-> << >>, renamed |-> {}, died |-> {} ]
    /\ NoHookMounted
    /\ \E present \in { {"a.md"}, MeetingNames }, seeded \in SUBSET { "a.md" },
          daily \in SUBSET { "Existing content", getDailyNoteTemplate } :
            /\ Cardinality(daily) <= 1
            /\ fs = [ p \in { join2(MeetingPath, n) : n \in present \cup OtherNames }
                             \cup { join2(MeetingPath, IMPORTED_PREFIX \o n) : n \in seeded }
                             \cup { getDailyNotePath(config, now) : c \in daily } |->
                        IF p = getDailyNotePath(config, now)
                        THEN [ content |-> CHOOSE c \in daily : TRUE, mtime |-> 0 ]
                        ELSE IF basename(p) \in present
                        THEN [ content |-> MeetingContentOf(basename(p)),
                               mtime   |-> MeetingTimeOf(basename(p)) ]
                        ELSE [ content |-> "old", mtime |-> 0 ] ]
            /\ dirs = { MeetingPath } \cup (IF daily = {} THEN {} ELSE VaultDirs)

NextImportSteps ==
    \/ \E order \in ListingOrders(FS, MeetingPath) :
          \E notes \in { listMeetingNotes(FS, MeetingPath, order) } :
             \E i \in 1 .. Len(notes), archive \in BOOLEAN : StartImport(notes[i], archive)
    \/ EnsureStep
    \/ AppendStep
    \/ ArchiveStep
    \/ Crash
    \/ DayPasses

SpecImportSteps == InitImportSteps /\ [][NextImportSteps]_vars

\* the daily notes on disk
DailyNotesOnDisk ==
    { p \in DOMAIN fs : dirname(p) = join2(config.vaultPath, config.dailyNotePath) }

\* where text stands in the daily notes: pairs of a note's path and an offset
PlacesInDailyNotes(text) ==
    { pk \in UNION { { <<p, k>> : k \in 0 .. Len(fs[p].content) } : p \in DailyNotesOnDisk } :
         OccursAt(fs[pk[1]].content, text, pk[2]) }

\* C16: importMeetingNote renames a source only after its formatted content
\* has been written to the daily note: whenever the call is about to archive,
\* and for every source a call has renamed, in every state afterwards, the
\* formatted content stands in a daily note and the source is in the archive.
C16_RenamedSourceIsInDailyNote ==
    /\ last.pc = "archive" => PlacesInDailyNotes(formatMeetingContent(last.note)) # {}
    /\ \A note \in last.renamed :
          /\ PlacesInDailyNotes(formatMeetingContent(note)) # {}
          /\ archivePathOf(note) \in DOMAIN fs
          /\ fs[archivePathOf(note)].content = note.content

\* two imports have run to their end, each renaming its source
C16_Witness ==
    /\ Cardinality(last.renamed) = 2
    /\ last.pc = "idle" /\ last.err = NoError
    /\ \A note \in last.renamed : note.path \notin DOMAIN fs

\* how many calls so far have appended note
TimesWritten(note) == Cardinality({ i \in 1 .. Len(last.written) : last.written[i] = note })

\* C17: when the process dies after the append and before the archive
\* statement, the source is still in its folder and still listed, and its
\* content is in the daily note; every later import of it appends the content
\* again: the daily notes hold the formatted content of a note once for each
\* call that appended it, so nothing is lost and retries leave duplicates.
C17_CrashBeforeRenameDuplicates ==
    /\ (last.pc = "idle" /\ last.err = "crashed" /\ last.crashedAt = "archive")
          => /\ last.note.path \in DOMAIN fs
             /\ fs[last.note.path].content = last.note.content
             /\ last.note.filename \in ListedNames
             /\ PlacesInDailyNotes(formatMeetingContent(last.note)) # {}
    /\ \A i \in 1 .. Len(last.written) :
          Cardinality(PlacesInDailyNotes(formatMeetingContent(last.written[i])))
             = TimesWritten(last.written[i])

\* a call died between append and archive, and the retry has appended the
\* content a second time and archived the source
C17_Witness ==
    \E note \in last.died :
        /\ TimesWritten(note) = 2
        /\ Cardinality(PlacesInDailyNotes(formatMeetingContent(note))) = 2
        /\ note \in last.renamed

----------------------------------------------------------------------------
(* Claims about the anchor of appendToSection *)

\* the 1-based number of the line of s that holds offset k
LineOf(s, k) == NewlinesBefore(s, k) + 1

\* the offset of the first occurrence of sub in s
FirstOccurrence(s, sub) == Min({ k \in 0 .. Len(s) : OccursAt(s, sub, k) })

----------------------------------------------------------------------------
(* Claims about the age of the cache entry (SpecCache) *)

\* the entry in the slot is for path and was built less than the TTL before t
YoungerThanTTL(path, t) ==
    /\ ~indexCache.isNull
    /\ indexCache.vaultPath = path
    /\ t - indexCache.timestamp < CACHE_TTL_MS

\* C19: a buildIndex call is served from the cache only if the slot holds an
\* entry for the requested path whose age is strictly under the TTL of 5
\* minutes; with an entry aged exactly the TTL or more, an entry for another
\* path or an empty slot, the call is not served from the cache.
C19_Original ==
    (last.op = "buildIndex" /\ requests.cur.outcome = "cache")
        => YoungerThanTTL(requests.cur.path, requests.cur.at)

\* C20: a buildIndex call made while a build of the requested vault path is in
\* flight does not come back empty-handed: either the requester is served the
\* entry in the cache, or it is left waiting for the build in flight, whose
\* result it gets when that build completes.
C20_Original ==
    (last.op = "buildIndex" /\ last.busy # {} /\ requests.cur.path # NoPath)
        => \/ /\ requests.cur.outcome = "cache"
              /\ hooks[last.hook].index = IndexOf(indexCache.index)
           \/ /\ requests.cur.outcome = "guard"
              /\ last.hook \in last.busy

----------------------------------------------------------------------------
(* The two import pipelines side by side *)

InitPipelines == InitImport \/ InitVoice

NextPipelines == NextImport \/ NextVoice

SpecPipelines == InitPipelines /\ [][NextPipelines]_vars

\* files is in ascending order of modification time
Ascending(files) ==
    \A i, j \in 1 .. Len(files) : i < j => files[i].timestamp <= files[j].timestamp

\* the offset of the topmost copy of text in today's daily note, -1 when the
\* note does not hold it
TopPlace(text) == indexOf(fs[getDailyNotePath(config, now)].content, text)

\* C21: listMeetingNotes and listTranscriptions return (never raise) a list in
\* ascending order of modification time, the empty list when the folder is
\* missing; importAllMeetingNotes works on such a listing of the folder as it
\* was, oldest first and one note after the other: every note is in results or
\* errors in listing order, and in the daily note each note's content stands
\* above the content of every note listed before it.
C21_ListedAscendingImportedOldestFirst ==
    /\ last.op = "listMeetingNotes"
          => Ascending(last.ret) /\ (MeetingPath \notin dirs => last.ret = << >>)
    /\ last.op = "listTranscriptions"
          => Ascending(last.ret) /\ (VoicePath \notin dirs => last.ret = << >>)
    /\ last.op = "importAllMeetingNotes"
          => /\ Ascending(last.notes)
             /\ MeetingPath \notin dirs => last.notes = << >>
             /\ \E o \in ReaddirOrders(last.pre, MeetingPath) :
                   last.notes = listMeetingNotes([files |-> last.pre, dirs |-> dirs],
                                                 MeetingPath, o)
             /\ \A i, j \in 1 .. Len(last.results) :
                   i < j => \E m, n \in 1 .. Len(last.notes) :
                               /\ m < n
                               /\ last.notes[m] = last.results[i].source
                               /\ last.notes[n] = last.results[j].source
             /\ ~DailyLackedSection
                   => \A m, n \in 1 .. Len(last.notes) :
                         m < n => TopPlace(formatMeetingContent(last.notes[n]))
                                    < TopPlace(formatMeetingContent(last.notes[m]))

\* a bulk import of three notes, the oldest written an hour before the run
C21_Witness ==
    /\ last.op = "importAllMeetingNotes"
    /\ Len(last.results) = 3
    /\ last.results[1].source.timestamp < last.results[3].source.timestamp

----------------------------------------------------------------------------
(* The template and the configured sections (SpecVault) *)

\* the header marker of the k-th section key
Marker(k) == config.sections[SectionKeys[k]]

\* the note of last.path was created by the ensureDailyNote just run, or was
\* such a fresh note when the appendToSection just run read it
FreshNote(content) ==
    \/ last.op = "ensureDailyNote" /\ ~last.old.exists /\ content = fs[last.path].content
    \/ last.op = "appendToSection" /\ last.old.exists /\ content = last.old.content
                                   /\ content = getDailyNoteTemplate

\* C22: a freshly created daily note holds the header marker of every key of
\* config.sections exactly once, the markers stand in declaration order, each
\* on a line of its own, the first line is the first marker (no title line),
\* and appendToSection on the fresh note succeeds for every configured marker.
C22_TemplateHoldsEverySection ==
    /\ DOMAIN config.sections = { SectionKeys[k] : k \in 1 .. Len(SectionKeys) }
    /\ \A content \in { fs[p].content : p \in DOMAIN fs } \cup { last.old.content } :
          FreshNote(content)
             => /\ \A k \in 1 .. Len(SectionKeys) :
                      /\ Cardinality({ i \in 0 .. Len(content) :
                                          OccursAt(content, Marker(k), i) }) = 1
                      /\ Cardinality({ i \in 1 .. Len(Lines(content)) :
                                          Lines(content)[i] = Marker(k) }) = 1
                /\ \A j, k \in 1 .. Len(SectionKeys) :
                      j < k => indexOf(content, Marker(j)) < indexOf(content, Marker(k))
                /\ Lines(content)[1] = Marker(1)
                /\ \A i \in 1 .. Len(Lines(content)) :
                      startsWith(Lines(content)[i], "#")
                         => \E k \in 1 .. Len(SectionKeys) : Lines(content)[i] = Marker(k)
                /\ \A k \in 1 .. Len(SectionKeys), c \in AppendContents :
                      appendToSection([files |-> [q \in {last.path} |->
                                                    [content |-> content, mtime |-> now]],
                                       dirs |-> dirs],
                                      last.path, Marker(k), c, now).err = NoError
    /\ (last.op = "appendToSection" /\ last.old.exists
          /\ last.old.content = getDailyNoteTemplate
          /\ \E k \in 1 .. Len(SectionKeys) : last.header = Marker(k))
         => last.err = NoError /\ Occurs(fs[last.path].content, last.content)

\* a note was created from the template and the append below its last
\* section, "## Evening Review", succeeded
C22_Witness ==
    /\ last.op = "appendToSection"
    /\ last.err = NoError
    /\ last.header = Marker(Len(SectionKeys))
    /\ last.old.content = getDailyNoteTemplate
    /\ \A p \in DOMAIN fs : fs[p].content \notin InitialDailyContents

----------------------------------------------------------------------------
(* What createCaptureNote writes (SpecCapture) *)

\* C23: createCaptureNote writes exactly one file, at
\* {vaultPath}/{inboxPath}/{filename}, holding
\* '{backlink} - {time}\n\n{content}\n'; every other file, the daily note of
\* the capture's day included, is as it was: not created, not modified.
C23_CaptureWritesOneFile ==
    Len(CaptureLog) > 0
       => LET call == CaptureLog[Len(CaptureLog)]
              path == config.vaultPath \o "/" \o config.inboxPath \o "/"
                         \o generateCaptureFilename(call.date)
              daily == getDailyNotePath(config, call.date)
          IN  /\ call.note.path = path
              /\ DOMAIN fs = DOMAIN last.pre \cup { path }
              /\ \A p \in DOMAIN last.pre \ { path } : fs[p] = last.pre[p]
              /\ fs[path].content
                    = getDailyNoteLink(call.date) \o " - " \o getTimestamp(call.date)
                         \o "\n\n" \o call.content \o "\n"
              /\ (call.date = CaptureTestDate /\ call.content = "an idea")
                    => fs[path].content = "[[2026-01-15-Thu]] - 2:35pm\n\nan idea\n"
              /\ daily # path
              /\ ContentOf(fs, daily) = ContentOf(last.pre, daily)

\* a capture into a vault without a daily note for its day, and one into a
\* vault that has it, each creating a new inbox file
C23_Witness ==
    /\ Len(CaptureLog) = 2
    /\ CaptureLog[1].date = CaptureTestDate + MsPerDay
    /\ CaptureLog[2].date = CaptureTestDate
    /\ getDailyNotePath(config, CaptureLog[1].date) \notin DOMAIN fs
    /\ getDailyNotePath(config, CaptureLog[2].date) \in DOMAIN last.pre
    /\ CaptureLog[2].note.path \notin DOMAIN last.pre

----------------------------------------------------------------------------
(* The hook's index and the vault path it is for (SpecCache) *)

\* every entry of the hook's index is a file below vaultPath
IndexIsFor(index, vaultPath) ==
    \A i \in 1 .. Len(index.entries) :
        startsWith(index.entries[i].path, vaultPath \o "/")

\* C24: whenever a hook shows isIndexing = false with an index that is not
\* null, the index was built for the hook's current vaultPath; a build of the
\* previous path that completes after vaultPath has changed does not settle
\* the hook (isIndexing = false) on the previous path's index.
C24_Original ==
    /\ \A h \in Hooks :
          (hooks[h].mounted /\ ~hooks[h].isIndexing /\ ~hooks[h].index.isNull
             /\ hooks[h].vaultPath # NoPath)
            => IndexIsFor(hooks[h].index, hooks[h].vaultPath)
    /\ (last.op = "buildSearchIndex" /\ last.err = NoError
          /\ hooks[last.hook].vaultPath # last.path)
         => hooks[last.hook].isIndexing

----------------------------------------------------------------------------
(* The builds of useSearchIndex under fair scheduling *)

\* the steps of the hooks alone, the vault and the clock standing still
NextBuild ==
    \/ \E h \in Hooks, p \in VaultPaths \cup { NoPath } : Mount(h, p)
    \/ \E h \in Hooks, p \in VaultPaths : SetVaultPath(h, p)
    \/ \E h \in Hooks : Refresh(h)
    \/ \E h \in Hooks : LoadingToastShown(h)
    \/ \E h \in Hooks : LoadingToastFails(h)
    \/ \E h \in Hooks : RunBuild(h)
    \/ \E h \in Hooks : FailureToastShown(h)

\* the setTimeout(..., 0) callback of every build runs.  RunBuild(h) is
\* enabled exactly when hook h stands at "setTimeout" and every RunBuild(h)
\* step leaves that position, so this is WF_vars(RunBuild(h)) written as a
\* condition on states
TimerFires(h) == []<>(hooks[h].pc # "setTimeout")

\* every awaited promise settles and every timer fires: the loading toast is
\* shown or rejects, the timer callback runs, the failure toast returns
SpecBuild ==
    /\ InitCache
    /\ [][NextBuild]_vars
    /\ \A h \in Hooks :
          /\ WF_vars(LoadingToastShown(h) \/ LoadingToastFails(h))
          /\ TimerFires(h)
          /\ WF_vars(FailureToastShown(h))

\* C25: every build that sets the buildInProgress guard eventually clears it
\* and sets isIndexing to false, whether buildSearchIndex succeeds or throws
\* and whether or not showing the loading toast succeeds.
C25_Original ==
    \A h \in Hooks :
        hooks[h].buildInProgress
           ~> (~hooks[h].buildInProgress /\ ~hooks[h].isIndexing)

----------------------------------------------------------------------------
(* A build that throws (SpecCache) *)

----------------------------------------------------------------------------
(* Appends and imports on one vault *)

\* the add command's appends to today's daily note and the bulk import of
\* the meeting folder
NextStacking ==
    \/ \E h \in AppendHeaders, c \in AppendContents :
          AppendToSection(getDailyNotePath(config, now), h, c)
    \/ \E order \in ListingOrders(FS, MeetingPath), archive \in BOOLEAN :
          ImportAllMeetingNotes(order, archive)

SpecStacking == InitImport /\ [][NextStacking]_vars

\* the step is a successful appendToSection that follows a successful
\* appendToSection on the same file and marker
AppendedAgain ==
    /\ last.op = "appendToSection" /\ last.err = NoError
    /\ appends' = appends + 1
    /\ last'.op = "appendToSection" /\ last'.err = NoError
    /\ last'.path = last.path /\ last'.header = last.header

\* the end of the line of the first occurrence of marker in text
MarkerLineEnd(text, marker) ==
    Min({ k \in indexOf(text, marker) + Len(marker) .. Len(text) :
            k = Len(text) \/ CharAt(text, k) = "\n" })

\* the imported notes stand in the Meeting Notes section of today's daily
\* note, a note written later above every note written earlier
ReverseChronological ==
    LET daily == fs[getDailyNotePath(config, now)].content
        text(i) == formatMeetingContent(last.results[i].source)
    IN  /\ \A i \in 1 .. Len(last.results) :
              /\ MarkerLineEnd(daily, config.sections.meetingNotes) < TopPlace(text(i))
              /\ Occurs(daily, "\n" \o config.sections.voiceNotes)
                    => TopPlace(text(i)) < indexOf(daily, "\n" \o config.sections.voiceNotes)
        /\ \A i, j \in 1 .. Len(last.results) :
              last.results[i].source.timestamp < last.results[j].source.timestamp
                 => TopPlace(text(j)) < TopPlace(text(i))

\* C27: appendToSection stacks newest-first: after two successive successful
\* calls on the same marker of a file, the second call's content stands on the
\* lines right below the marker and the first call's content right below it;
\* importAllMeetingNotes, importing oldest first, leaves the imported notes in
\* reverse chronological order in the Meeting Notes section.
C27_NewestFirst ==
    [][ /\ AppendedAgain
           => OccursAt(fs'[last'.path].content,
                       "\n" \o last'.content \o "\n" \o last.content,
                       MarkerLineEnd(fs'[last'.path].content, last'.header))
        /\ (last'.op = "importAllMeetingNotes" /\ last'.results # << >>)
           => ReverseChronological' ]_vars

\* three notes written at 1:35pm and 1:36pm were imported in one run
C27_Witness ==
    /\ last.op = "importAllMeetingNotes"
    /\ Len(last.results) = 3
    /\ \E i, j \in 1 .. 3 :
          /\ last.results[i].source.timestamp < last.results[j].source.timestamp
          /\ TopPlace(formatMeetingContent(last.results[j].source))
                < TopPlace(formatMeetingContent(last.results[i].source))

----------------------------------------------------------------------------
(* An import that fails at the archive step (SpecImport) *)

\* how many times text stands in today's daily note in files
Copies(files, text) ==
    IF getDailyNotePath(config, now) \in DOMAIN files
    THEN Cardinality({ k \in 0 .. Len(files[getDailyNotePath(config, now)].content) :
                         OccursAt(files[getDailyNotePath(config, now)].content, text, k) })
    ELSE 0

\* the import of note, from the vault in pre, failed because its archive name
\* was taken: the daily note has one more copy of the note's content, the
\* source is where it was and is still listed, and a retry fails the same way
\* after appending one more copy
AppendedThenFailed(note, pre) ==
    /\ Copies(fs, formatMeetingContent(note)) = Copies(pre, formatMeetingContent(note)) + 1
    /\ note.path \in DOMAIN fs
    /\ fs[note.path] = pre[note.path]
    /\ note.filename \in ListedNames
    /\ archivePathOf(note) \in DOMAIN fs
    /\ LET retry == importMeetingNote(FS, config, note, TRUE, now)
       IN  /\ retry.err = AlreadyArchived(archivePathOf(note))
           /\ Copies(retry.fsys.files, formatMeetingContent(note))
                 = Copies(fs, formatMeetingContent(note)) + 1

\* C28: when importMeetingNote fails because the archive target exists, the
\* note's content has already been appended to the daily note; the source
\* file stays in place and listed, and every retry, single or in a bulk
\* import, appends the content once more.
C28_ArchiveCollisionAppendsEachTry ==
    /\ (last.op = "importMeetingNote"
          /\ last.err = AlreadyArchived(archivePathOf(last.note)))
         => AppendedThenFailed(last.note, last.pre)
    /\ last.op = "importAllMeetingNotes"
         => \A i \in 1 .. Len(last.errors) :
               last.errors[i].error = AlreadyArchived(archivePathOf(last.errors[i].note))
                  => AppendedThenFailed(last.errors[i].note, last.pre)

\* the import of a note whose archive name is taken was tried, failed, and
\* was tried again: the daily note holds its content twice
C28_Witness ==
    /\ last.op \in { "importMeetingNote", "importAllMeetingNotes" }
    /\ appends >= 2
    /\ \E n \in MeetingNames :
          /\ join2(MeetingPath, n) \in DOMAIN fs
          /\ join2(MeetingPath, IMPORTED_PREFIX \o n) \in DOMAIN fs
          /\ Copies(fs, formatMeetingContent(
                            meetingNoteFile(fs, MeetingPath, n))) = 2
          /\ Copies(last.pre, formatMeetingContent(
                                  meetingNoteFile(fs, MeetingPath, n))) = 1

----------------------------------------------------------------------------
(* What the voice import keeps (SpecVoice) *)

\* the notes in the inbox
InboxNotes == { p \in DOMAIN fs : dirname(p) = InboxDir }

\* C29: after importAllTranscriptions has archived transcriptions, the trimmed
\* content of every source it archived stands in some inbox note, also when
\* two sources were written within the same second.
C29_Original ==
    (last.op = "importAllTranscriptions" /\ last.archive)
       => \A i \in 1 .. Len(last.transcriptions) :
             (/\ last.transcriptions[i].path \in DOMAIN last.pre
              /\ last.transcriptions[i].path \notin DOMAIN fs
              /\ VoiceArchive(last.transcriptions[i].filename) \in DOMAIN fs)
                => \E p \in InboxNotes :
                      Occurs(fs[p].content, trim(last.transcriptions[i].content))

----------------------------------------------------------------------------
(* A listing whose files change between readdirSync and the reads *)

ListingCalls == { "listMeetingNotes", "getPendingMeetingCount", "importAllMeetingNotes" }

\* no listing under way; what the last call returned, and the files before
\* its reads and after it
Listed(op, order, archive, notes, count, results, errors, pre, post) ==
    [ op |-> op, pc |-> "idle", order |-> order, archive |-> archive, notes |-> notes,
      count |-> count, results |-> results, errors |-> errors, pre |-> pre, post |-> post ]

\* one of the three calls starts: readdirSync(sourcePath) returns the names
\* of the folder in some order (a missing folder ends the call in its catch)
ReadDirectory(op, order, archive) ==
    /\ last.pc = "idle"
    /\ appends < MaxTries
    /\ appends' = appends + 1
    /\ last' = IF MeetingPath \in dirs
               THEN [ Listed(op, order, archive, << >>, 0, << >>, << >>, fs, fs)
                        EXCEPT !.pc = "map" ]
               ELSE Listed(op, << >>, archive, << >>, 0, << >>, << >>, fs, fs)
    /\ UNCHANGED <<fs, dirs, now, drops, indexCache, hooks, requests>>

\* the meeting app, or another import, takes a file out of the folder
RemoveSource(filename) ==
    /\ drops < MaxDrops
    /\ join2(MeetingPath, filename) \in DOMAIN fs
    /\ drops' = drops + 1
    /\ fs' = [ p \in DOMAIN fs \ { join2(MeetingPath, filename) } |-> fs[p] ]
    /\ UNCHANGED <<dirs, now, appends, last, indexCache, hooks, requests>>

\* the filter, the stat and read of every kept name, the sort, and what the
\* caller does with the list
MapAndReturn ==
    /\ last.pc = "map"
    /\ \E r \in { importAllMeetingNotes(FS, config, MeetingPath, last.order,
                                         last.archive, now) } :
          IF last.op = "importAllMeetingNotes"
          THEN /\ fs' = r.fsys.files
               /\ dirs' = r.fsys.dirs
               /\ last' = Listed(last.op, last.order, last.archive, r.notes,
                                 Len(r.notes), r.results, r.errors, fs, r.fsys.files)
          ELSE /\ UNCHANGED <<fs, dirs>>
               /\ last' = Listed(last.op, last.order, last.archive,
                                 listMeetingNotes(FS, MeetingPath, last.order),
                                 getPendingMeetingCount(FS, MeetingPath, last.order),
                                 << >>, << >>, fs, fs)
    /\ UNCHANGED <<now, appends, drops, indexCache, hooks, requests>>

InitListingRace ==
    /\ now = TestDate
    /\ appends = 0
    /\ drops = 0
    /\ last = Listed("none", << >>, FALSE, << >>, 0, << >>, << >>, << >>, << >>)
    /\ NoHookMounted
    /\ \/ /\ fs = << >>
          /\ dirs = {}
       \/ \E present \in { {"a.md"}, MeetingNames } :
             /\ fs = [ p \in { join2(MeetingPath, n) : n \in present \cup OtherNames } |->
                         IF basename(p) \in present
                         THEN [ content |-> MeetingContentOf(basename(p)),
                                mtime   |-> MeetingTimeOf(basename(p)) ]
                         ELSE [ content |-> "old", mtime |-> 0 ] ]
             /\ dirs = { MeetingPath }

NextListingRace ==
    \/ \E op \in ListingCalls, order \in ReaddirOrders(fs, MeetingPath),
          archive \in BOOLEAN : ReadDirectory(op, order, archive)
    \/ \E n \in MeetingNames \cup OtherNames : RemoveSource(n)
    \/ MapAndReturn

SpecListingRace == InitListingRace /\ [][NextListingRace]_vars

\* the names readdirSync returned that pass the filter
Candidates == { last.order[i] : i \in { j \in 1 .. Len(last.order) : isMeetingFile(last.order[j]) } }

\* the candidates whose file was gone when the call came to read it
Vanished == { n \in Candidates : join2(MeetingPath, n) \notin DOMAIN last.pre }

\* C30: listMeetingNotes is all-or-nothing: when the stat or read of any
\* candidate fails, its file having been removed between the directory read
\* and the file read, the call returns [] although other candidates are
\* readable, getPendingMeetingCount reports 0 and importAllMeetingNotes
\* imports nothing; with every candidate readable all of them are listed.
C30_ListingAllOrNothing ==
    (last.pc = "idle" /\ last.op \in ListingCalls)
       => /\ Vanished # {}
               => /\ last.notes = << >>
                  /\ last.count = 0
                  /\ last.results = << >> /\ last.errors = << >>
                  /\ last.post = last.pre
          /\ Vanished = {}
               => /\ { last.notes[i].filename : i \in 1 .. Len(last.notes) } = Candidates
                  /\ last.count = Cardinality(Candidates)
                  /\ last.op = "importAllMeetingNotes"
                        => Len(last.results) + Len(last.errors) = Cardinality(Candidates)

\* a bulk import whose directory read named three notes, one of which was
\* gone when the notes were read, returned without importing the other two
C30_Witness ==
    /\ last.pc = "idle"
    /\ last.op = "importAllMeetingNotes"
    /\ Cardinality(Candidates) = 3
    /\ Cardinality(Vanished) = 1
    /\ last.results = << >>
    /\ \E n \in Candidates \ Vanished : join2(MeetingPath, n) \in DOMAIN last.post

====
